---- MODULE Spec2Model ----
(***************************************************************************)
(* TagDeck: the undo/redo engine, the tag edits that feed it and the       *)
(* three-phase sync of the local store with the external music library.   *)
(* Text values are sequences of one-character strings, so the comment      *)
(* codec is computed on characters as the Rust code computes it.           *)
(***************************************************************************)
EXTENDS Integers, Sequences, FiniteSets, TLC

VARIABLES
    tracks,          \* db table tracks: id -> row
    playlists,       \* db table playlists: id -> row
    playlist_tracks, \* db table playlist_tracks: set of (playlist_id, track_id, position)
    file,            \* comment chunk of each audio file: path -> text
    am_tracks,       \* the external library's tracks: persistent id -> fields
    am_playlists,    \* the external library's playlists, in its own order
    undo_stack,      \* UndoStack.undo_stack
    redo_stack,      \* UndoStack.redo_stack
    ret,             \* the last edit command: name, result, kind of fault injected,
                     \* size of the redo stack it found
    run,             \* observer of a run of write_tags edits then undos then redos
    cyc,             \* observer of the undo/redo cycles of the last batch action
    is_syncing,      \* AppState.is_syncing
    task,            \* each request task: its position in import_from_music_app or
                     \* sync_recent_changes, its locals and its last result
    quiet,           \* observer: the since-timestamp of a sync pass that ran all three
                     \* phases, with no import and no external change since
    codec,           \* a user comment and a tag list, encoded and then decoded
    watcher,         \* the library watcher thread: the clock, last_emit_time, and
                     \* the times of the relevant events and of the signals so far
    tags_table,      \* db table tags: name folded to lower case (UNIQUE COLLATE
                     \* NOCASE) -> the stored name and usage_count
    log              \* observer: the lock operations and the file, store and gateway
                     \* writes of the last command, in the order it made them

vars == <<tracks, playlists, playlist_tracks, file, am_tracks, am_playlists,
          undo_stack, redo_stack, ret, run, cyc, is_syncing, task, quiet, codec,
          watcher, tags_table, log>>

\* what no edit command touches
sync_vars == <<am_tracks, am_playlists, is_syncing, task, quiet, codec, watcher, tags_table>>

\* what no edit command touches, the external tracks apart
sync_rest == <<am_playlists, is_syncing, task, quiet, codec, watcher, tags_table>>

\* what no sync command touches
edit_vars == <<file, undo_stack, redo_stack, ret, run, cyc, codec, watcher,
               tags_table, log>>

(***************************************************************************)
(* Bounds                                                                  *)
(***************************************************************************)
MaxStack == 2

MaxCommentLen == 4

MaxTagLen == 2

MaxTags == 2

(***************************************************************************)
(* Text                                                                    *)
(***************************************************************************)
DELIMITER == <<" ", "&", "&", " ">>

Some(s) == [some |-> TRUE, val |-> s]

None == [some |-> FALSE, val |-> <<>>]

unwrap_or_default(o) == IF o.some THEN o.val ELSE <<>>

to_lowercase_char(c) ==
    CASE c = "H" -> "h"
      [] c = "P" -> "p"
      [] c = "C" -> "c"
      [] OTHER -> c

to_lowercase(s) == [i \in 1..Len(s) |-> to_lowercase_char(s[i])]

IsPrefixAt(pat, s, i) ==
    /\ i + Len(pat) - 1 <= Len(s)
    /\ \A k \in 1..Len(pat) : s[i + k - 1] = pat[k]

\* str::find: the index of the first occurrence, 0 when there is none
find(s, pat) ==
    LET hits == {i \in 1..Len(s) : IsPrefixAt(pat, s, i)}
    IN IF hits = {} THEN 0 ELSE CHOOSE i \in hits : \A j \in hits : i <= j

RECURSIVE trim_start(_)
trim_start(s) == IF s # <<>> /\ Head(s) = " " THEN trim_start(Tail(s)) ELSE s

RECURSIVE trim_end(_)
trim_end(s) ==
    IF s # <<>> /\ s[Len(s)] = " " THEN trim_end(SubSeq(s, 1, Len(s) - 1)) ELSE s

trim(s) == trim_end(trim_start(s))

\* str::split(';'): always at least one piece
RECURSIVE split_semi(_)
split_semi(s) ==
    LET i == find(s, <<";">>)
    IN IF i = 0 THEN <<s>>
       ELSE <<SubSeq(s, 1, i - 1)>> \o split_semi(SubSeq(s, i + 1, Len(s)))

RECURSIVE join(_, _)
join(parts, sep) ==
    IF parts = <<>> THEN <<>>
    ELSE IF Len(parts) = 1 THEN parts[1]
    ELSE parts[1] \o sep \o join(Tail(parts), sep)

RECURSIVE filter_nonempty(_)
filter_nonempty(parts) ==
    IF parts = <<>> THEN <<>>
    ELSE IF parts[1] = <<>> THEN filter_nonempty(Tail(parts))
    ELSE <<parts[1]>> \o filter_nonempty(Tail(parts))

\* (user_comment, tag_block) of a comment
split_comment(current_comment) ==
    LET idx == find(current_comment, DELIMITER)
    IN IF idx # 0
       THEN [user_comment |-> SubSeq(current_comment, 1, idx - 1),
             tag_block |-> SubSeq(current_comment, idx + 4, Len(current_comment))]
       ELSE [user_comment |-> current_comment, tag_block |-> <<>>]

\* a split on ';' that keeps each piece as written
parse_tags_untrimmed(tag_block) == filter_nonempty(split_semi(tag_block))

parse_tags(tag_block) ==
    LET pieces == split_semi(tag_block)
    IN filter_nonempty([i \in 1..Len(pieces) |-> trim(pieces[i])])

\* an encoding with no delimiter before the tags of an empty user comment
reconstruct_bare(user_comment, tags) ==
    IF user_comment = <<>> \/ tags = <<>> THEN user_comment \o join(tags, <<";", " ">>)
    ELSE user_comment \o DELIMITER \o join(tags, <<";", " ">>)

reconstruct(user_comment, tags) ==
    LET new_tag_block == join(tags, <<";", " ">>)
    IN IF new_tag_block # <<>>
       THEN IF user_comment = <<>>
            THEN DELIMITER \o new_tag_block
            ELSE user_comment \o DELIMITER \o new_tag_block
       ELSE user_comment

\* a membership test that compares the tags as written
has_tag_exact(tags, raw_tag) == \E i \in 1..Len(tags) : tags[i] = raw_tag

has_tag(tags, raw_tag) ==
    \E i \in 1..Len(tags) : to_lowercase(tags[i]) = to_lowercase(raw_tag)

\* a retain that compares the tags as written
retain_other_exact(tags, raw_tag) == SelectSeq(tags, LAMBDA t : t # raw_tag)

RECURSIVE retain_other(_, _)
retain_other(tags, raw_tag) ==
    IF tags = <<>> THEN <<>>
    ELSE IF to_lowercase(tags[1]) # to_lowercase(raw_tag)
    THEN <<tags[1]>> \o retain_other(Tail(tags), raw_tag)
    ELSE retain_other(Tail(tags), raw_tag)

(***************************************************************************)
(* Local store (db.rs)                                                     *)
(***************************************************************************)
TrackRow(pid, path, comment) ==
    [persistent_id |-> pid, file_path |-> path, title |-> "t", comment_raw |-> comment,
     rating |-> 0, bpm |-> 0, modified_date |-> 1, date_added |-> 1, missing |-> FALSE]

PlaylistRow(pid, parent, name, is_folder) ==
    [persistent_id |-> pid, parent_persistent_id |-> parent, name |-> name,
     is_folder |-> is_folder]

\* SELECT * FROM tracks WHERE id = ?1
has_track(db, id) == id \in DOMAIN db

\* UPDATE tracks SET comment_raw, grouping_raw, modified_date WHERE id
update_track(db, id, track, ok) ==
    IF ok /\ id \in DOMAIN db
    THEN [db EXCEPT ![id].comment_raw = track.comment_raw,
                    ![id].modified_date = track.modified_date]
    ELSE db

\* UPDATE tracks SET comment_raw = ?1 WHERE id = ?2
update_track_metadata(db, id, comment, ok) ==
    IF ok /\ id \in DOMAIN db
    THEN [db EXCEPT ![id].comment_raw = Some(comment)]
    ELSE db

\* UPDATE tracks SET rating = ?1 WHERE id = ?2
db_update_track_rating(db, id, rating, ok) ==
    IF ok /\ id \in DOMAIN db THEN [db EXCEPT ![id].rating = rating] ELSE db

RowsOf(pt, playlist_id) == {r \in pt : r.playlist_id = playlist_id}

\* SELECT ... FROM playlist_tracks WHERE playlist_id = ?1 ORDER BY position
RECURSIVE ordered_rows(_)
ordered_rows(rows) ==
    IF rows = {} THEN <<>>
    ELSE LET r == CHOOSE x \in rows :
                      \A y \in rows : x.position < y.position
                          \/ (x.position = y.position /\ x.track_id <= y.track_id)
         IN <<r>> \o ordered_rows(rows \ {r})

get_playlist_track_ids(pt, playlist_id) ==
    LET rs == ordered_rows(RowsOf(pt, playlist_id))
    IN [i \in 1..Len(rs) |-> rs[i].track_id]

\* The position column is read only to order by it, so the table is kept with
\* each playlist's positions renumbered 0, 1, 2, ... in their order: the
\* positions the code writes (MAX + 1, the snapshot index) grow without bound.
compact(pt) ==
    UNION {LET ids == get_playlist_track_ids(pt, p)
           IN {[playlist_id |-> p, track_id |-> ids[i], position |-> i - 1] :
                   i \in 1..Len(ids)} :
           p \in {r.playlist_id : r \in pt}}

\* INSERT OR IGNORE INTO playlist_tracks at MAX(position) + 1
add_track_to_playlist_db(pt, playlist_id, track_id) ==
    LET rows == RowsOf(pt, playlist_id)
        new_pos == IF rows = {} THEN 0
                   ELSE 1 + CHOOSE m \in {r.position : r \in rows} :
                                \A r \in rows : r.position <= m
    IN IF \E r \in rows : r.track_id = track_id
       THEN pt
       ELSE pt \cup {[playlist_id |-> playlist_id, track_id |-> track_id,
                       position |-> new_pos]}

\* DELETE FROM playlist_tracks WHERE playlist_id = ?1 AND track_id = ?2
remove_track_from_playlist(pt, playlist_id, track_id) ==
    {r \in pt : ~(r.playlist_id = playlist_id /\ r.track_id = track_id)}

(***************************************************************************)
(* File tag chunk (metadata.rs); faults of one command                     *)
(***************************************************************************)
\* write_metadata: the comment key is replaced by the text given
write_tags_to_file(f, path, comment) == [f EXCEPT ![path] = comment]

\* One command runs with at most one fault: the file write of one track fails,
\* the store write of one track fails, or the gateway call fails.
NoFault == [kind |-> "none", id |-> 0]

GatewayFault == [kind |-> "gateway", id |-> 0]

FileFault(id) == [kind |-> "file", id |-> id]

DbFault(id) == [kind |-> "db", id |-> id]

file_ok(fault, id) == ~(fault.kind = "file" /\ fault.id = id)

db_ok(fault, id) == ~(fault.kind = "db" /\ fault.id = id)

gateway_ok(fault) == fault.kind # "gateway"

(***************************************************************************)
(* Gateway writes of comments (apple_music.rs)                             *)
(***************************************************************************)
\* the index of the first external track with the persistent id, 0 when none
first_track(am, pid) ==
    LET hits == {i \in 1..Len(am) : am[i].persistent_id = pid}
    IN IF hits = {} THEN 0 ELSE CHOOSE i \in hits : \A j \in hits : i <= j

\* updates.forEach: the first match of each persistent id gets the comment
RECURSIVE set_comments(_, _)
set_comments(am, updates) ==
    IF updates = <<>> THEN am
    ELSE LET i == first_track(am, updates[1][1])
         IN set_comments(IF i = 0 THEN am ELSE [am EXCEPT ![i].comment = updates[1][2]],
                         Tail(updates))

\* one call for the whole list; a failed call changes nothing
batch_update_track_comments(am, updates, ok) ==
    IF ok THEN set_comments(am, updates) ELSE am

update_track_comment(am, persistent_id, comment, ok) ==
    batch_update_track_comments(am, <<<<persistent_id, comment>>>>, ok)

\* set rating of item 1 of (every track whose persistent ID is ..)
update_track_rating(am, persistent_id, rating, ok) ==
    LET i == first_track(am, persistent_id)
    IN IF ok /\ i # 0 THEN [am EXCEPT ![i].rating = rating] ELSE am

(***************************************************************************)
(* Undo/redo engine (undo.rs)                                              *)
(***************************************************************************)
TrackState(id, track, old_comment, new_comment) ==
    [id |-> id, persistent_id |-> track.persistent_id, file_path |-> track.file_path,
     old_comment |-> old_comment, new_comment |-> new_comment]

UpdateTrackComments(states) == [kind |-> "UpdateTrackComments", tracks |-> states]

AddToPlaylistAction(playlist_id, playlist_pid, refs) ==
    [kind |-> "AddToPlaylist", playlist_id |-> playlist_id,
     playlist_persistent_id |-> playlist_pid, tracks |-> refs]

\* TrackInfoState: only the fields that changed carry values; artist, album and
\* bpm are carried like the title
TrackInfoState(id, track, old_title, new_title, old_comment_raw, new_comment_raw) ==
    [id |-> id, persistent_id |-> track.persistent_id, file_path |-> track.file_path,
     old_title |-> old_title, new_title |-> new_title,
     old_comment_raw |-> old_comment_raw, new_comment_raw |-> new_comment_raw]

UpdateTrackInfoAction(track) == [kind |-> "UpdateTrackInfo", track |-> track]

\* UPDATE tracks SET each field given WHERE id
db_update_track_info(db, id, title, comment_raw, ok) ==
    IF ok /\ has_track(db, id)
    THEN [db EXCEPT ![id] =
             [@ EXCEPT !.title = IF title.some THEN title.val ELSE @,
                       !.comment_raw = IF comment_raw.some THEN comment_raw ELSE @]]
    ELSE db

\* apply_track_info: the old values (revert) or the new ones, to the store, then to
\* the file, then to the external library; st = [tracks, file, updates]
apply_track_info(st, track, revert, fault) ==
    LET title == IF revert THEN track.old_title ELSE track.new_title
        comment_raw == IF revert THEN track.old_comment_raw ELSE track.new_comment_raw
    IN [tracks |-> db_update_track_info(st.tracks, track.id, title, comment_raw,
                       db_ok(fault, track.id)),
        file |-> IF comment_raw.some /\ file_ok(fault, track.id)
                      /\ track.file_path \in DOMAIN st.file
                 THEN write_tags_to_file(st.file, track.file_path, comment_raw.val)
                 ELSE st.file,
        updates |-> IF track.persistent_id # "" /\ comment_raw.some
                    THEN <<<<track.persistent_id, comment_raw.val>>>>
                    ELSE <<>>]

\* a push that keeps the forward history
push_keeps_redo(stacks, action) ==
    [undo |-> Append(stacks.undo, action), redo |-> stacks.redo]

\* UndoStack::push
push(stacks, action) ==
    [undo |-> Append(stacks.undo, action), redo |-> <<>>]

\* an undo loop that ends at the first file write that fails
RECURSIVE undo_comments_stops(_, _, _)
undo_comments_stops(list, st, fault) ==
    IF list = <<>> THEN st
    ELSE LET track == list[1]
         IN IF ~(file_ok(fault, track.id) /\ track.file_path \in DOMAIN st.file)
            THEN st
            ELSE undo_comments_stops(Tail(list),
                   [tracks |-> update_track_metadata(st.tracks, track.id,
                                   track.old_comment, db_ok(fault, track.id)),
                    file |-> write_tags_to_file(st.file, track.file_path,
                                   track.old_comment),
                    updates |-> IF track.persistent_id # ""
                                THEN Append(st.updates,
                                         <<track.persistent_id, track.old_comment>>)
                                ELSE st.updates],
                   fault)

\* the loop of UndoStack::undo over the tracks of a comment action;
\* st = [tracks, file, updates]
RECURSIVE undo_comments(_, _, _)
undo_comments(list, st, fault) ==
    IF list = <<>> THEN st
    ELSE LET track == list[1]
         IN IF ~(file_ok(fault, track.id) /\ track.file_path \in DOMAIN st.file)
            THEN undo_comments(Tail(list), st, fault)
            ELSE undo_comments(Tail(list),
                   [tracks |-> update_track_metadata(st.tracks, track.id,
                                   track.old_comment, db_ok(fault, track.id)),
                    file |-> write_tags_to_file(st.file, track.file_path,
                                   track.old_comment),
                    updates |-> IF track.persistent_id # ""
                                THEN Append(st.updates,
                                         <<track.persistent_id, track.old_comment>>)
                                ELSE st.updates],
                   fault)

\* the loop of UndoStack::redo over the tracks of a comment action
RECURSIVE redo_comments(_, _, _)
redo_comments(list, st, fault) ==
    IF list = <<>> THEN st
    ELSE LET track == list[1]
         IN redo_comments(Tail(list),
                   [tracks |-> update_track_metadata(st.tracks, track.id,
                                   track.new_comment, db_ok(fault, track.id)),
                    file |-> IF file_ok(fault, track.id)
                                  /\ track.file_path \in DOMAIN st.file
                             THEN write_tags_to_file(st.file, track.file_path,
                                      track.new_comment)
                             ELSE st.file,
                    updates |-> IF track.persistent_id # ""
                                THEN Append(st.updates,
                                         <<track.persistent_id, track.new_comment>>)
                                ELSE st.updates],
                   fault)

\* for track in tracks { let _ = db.remove_track_from_playlist(..) }
RECURSIVE remove_refs_db(_, _, _, _)
remove_refs_db(pt, playlist_id, refs, fault) ==
    IF refs = <<>> THEN pt
    ELSE remove_refs_db(
             IF db_ok(fault, refs[1].id)
             THEN remove_track_from_playlist(pt, playlist_id, refs[1].id) ELSE pt,
             playlist_id, Tail(refs), fault)

\* for track in tracks { let _ = db.add_track_to_playlist_db(..) }
RECURSIVE add_refs_db(_, _, _, _)
add_refs_db(pt, playlist_id, refs, fault) ==
    IF refs = <<>> THEN pt
    ELSE add_refs_db(
             IF db_ok(fault, refs[1].id)
             THEN add_track_to_playlist_db(pt, playlist_id, refs[1].id) ELSE pt,
             playlist_id, Tail(refs), fault)

(***************************************************************************)
(* The result of the last command                                          *)
(***************************************************************************)
Ret(op, result, fault) ==
    [op |-> op, result |-> result, fault |-> fault.kind,
     redo_before |-> Len(redo_stack)]

(***************************************************************************)
(* Edit commands (commands.rs)                                             *)
(***************************************************************************)
\* an undo entry whose old comment is read after the edit
write_tags_action_stale(id, track, new_tags) ==
    UpdateTrackComments(<<TrackState(id, track, new_tags, new_tags)>>)

\* the undo entry write_tags prepares
write_tags_action(id, track, new_tags) ==
    UpdateTrackComments(
        <<TrackState(id, track, unwrap_or_default(track.comment_raw), new_tags)>>)

WriteTags(id, new_tags, fault) ==
    LET found == has_track(tracks, id)
        fok == file_ok(fault, id)
        dok == db_ok(fault, id)
    IN
    /\ Len(undo_stack) < MaxStack
    /\ ret' = Ret("write_tags", IF found /\ fok /\ dok THEN "ok" ELSE "err", fault)
    /\ UNCHANGED <<playlists, playlist_tracks, sync_rest>>
    /\ IF ~found \/ ~fok
       THEN UNCHANGED <<tracks, file, am_tracks, undo_stack, redo_stack>>
       ELSE LET track == tracks[id]
                undo_action == write_tags_action(id, track, new_tags)
                stacks == push([undo |-> undo_stack, redo |-> redo_stack], undo_action)
            IN /\ file' = write_tags_to_file(file, track.file_path, new_tags)
               /\ am_tracks' = update_track_comment(am_tracks, track.persistent_id,
                                    new_tags, gateway_ok(fault))
               /\ tracks' = update_track(tracks, id,
                                [track EXCEPT !.comment_raw = Some(new_tags)], dok)
               /\ IF dok
                  THEN /\ undo_stack' = stacks.undo
                       /\ redo_stack' = stacks.redo
                  ELSE UNCHANGED <<undo_stack, redo_stack>>

\* an edit that appends the tag whether the track carries it or not
add_tag_edit_always(current_comment, raw_tag) ==
    LET parts == split_comment(current_comment)
    IN [changed |-> TRUE,
        new_full_comment |-> reconstruct(parts.user_comment,
                                 Append(parse_tags(parts.tag_block), raw_tag))]

\* what batch_add_tag computes for one track: whether it changes, and the new comment
add_tag_edit(current_comment, raw_tag) ==
    LET parts == split_comment(current_comment)
        tags == parse_tags(parts.tag_block)
    IN [changed |-> ~has_tag(tags, raw_tag),
        new_full_comment |-> reconstruct(parts.user_comment, Append(tags, raw_tag))]

\* what batch_remove_tag computes for one track
remove_tag_edit(current_comment, raw_tag) ==
    LET parts == split_comment(current_comment)
        tags == parse_tags(parts.tag_block)
        kept == retain_other(tags, raw_tag)
    IN [changed |-> Len(kept) # Len(tags),
        new_full_comment |-> reconstruct(parts.user_comment, kept)]

\* tracks_to_update: the rows of the ids the store knows, in the order given
RECURSIVE tracks_to_update(_, _)
tracks_to_update(db, ids) ==
    IF ids = <<>> THEN <<>>
    ELSE IF has_track(db, ids[1])
    THEN <<[id |-> ids[1], row |-> db[ids[1]]]>> \o tracks_to_update(db, Tail(ids))
    ELSE tracks_to_update(db, Tail(ids))

\* a write loop that ends at the first file write that fails
RECURSIVE batch_loop_stops(_, _, _, _, _)
batch_loop_stops(kind, list, raw_tag, st, fault) ==
    IF list = <<>> THEN st
    ELSE LET id == list[1].id
             track == list[1].row
             current_comment == unwrap_or_default(track.comment_raw)
             edit == IF kind = "add" THEN add_tag_edit(current_comment, raw_tag)
                     ELSE remove_tag_edit(current_comment, raw_tag)
             state == TrackState(id, track, current_comment, edit.new_full_comment)
         IN IF ~edit.changed
            THEN batch_loop_stops(kind, Tail(list), raw_tag, st, fault)
            ELSE IF ~file_ok(fault, id)
            THEN [st EXCEPT !.undo_track_states = Append(@, state)]
            ELSE batch_loop_stops(kind, Tail(list), raw_tag,
                     [tracks |-> update_track(st.tracks, id,
                                   [track EXCEPT !.comment_raw =
                                        Some(edit.new_full_comment)],
                                   db_ok(fault, id)),
                      file |-> write_tags_to_file(st.file, track.file_path,
                                   edit.new_full_comment),
                      updates |-> st.updates,
                      undo_track_states |-> Append(st.undo_track_states, state)],
                     fault)

\* the write loop of batch_add_tag and batch_remove_tag;
\* st = [tracks, file, updates, undo_track_states]
RECURSIVE batch_loop(_, _, _, _, _)
batch_loop(kind, list, raw_tag, st, fault) ==
    IF list = <<>> THEN st
    ELSE LET id == list[1].id
             track == list[1].row
             current_comment == unwrap_or_default(track.comment_raw)
             edit == IF kind = "add" THEN add_tag_edit(current_comment, raw_tag)
                     ELSE remove_tag_edit(current_comment, raw_tag)
             state == TrackState(id, track, current_comment, edit.new_full_comment)
             wrote == file_ok(fault, id) /\ track.file_path \in DOMAIN st.file
         IN IF ~edit.changed
            THEN batch_loop(kind, Tail(list), raw_tag, st, fault)
            ELSE IF ~wrote
            THEN batch_loop(kind, Tail(list), raw_tag,
                     [st EXCEPT !.undo_track_states = Append(@, state)], fault)
            ELSE batch_loop(kind, Tail(list), raw_tag,
                     [tracks |-> update_track(st.tracks, id,
                                   [track EXCEPT !.comment_raw =
                                        Some(edit.new_full_comment)],
                                   db_ok(fault, id)),
                      file |-> write_tags_to_file(st.file, track.file_path,
                                   edit.new_full_comment),
                      updates |-> IF track.persistent_id # ""
                                  THEN Append(st.updates,
                                     <<track.persistent_id, edit.new_full_comment>>)
                                  ELSE st.updates,
                      undo_track_states |-> Append(st.undo_track_states, state)],
                     fault)

StateIds(states) == {states[i].id : i \in 1..Len(states)}

BatchTag(kind, ids, tag, fault) ==
    LET raw_tag == trim(tag)
        st == batch_loop(kind, tracks_to_update(tracks, ids), raw_tag,
                  [tracks |-> tracks, file |-> file, updates |-> <<>>,
                   undo_track_states |-> <<>>], fault)
        stacks == push([undo |-> undo_stack, redo |-> redo_stack],
                       UpdateTrackComments(st.undo_track_states))
    IN /\ Len(undo_stack) < MaxStack
       /\ ret' = Ret(IF kind = "add" THEN "batch_add_tag" ELSE "batch_remove_tag", "ok",
                     fault)
       /\ UNCHANGED <<playlists, playlist_tracks, sync_rest>>
       /\ IF raw_tag = <<>>
          THEN UNCHANGED <<tracks, file, am_tracks, undo_stack, redo_stack>>
          ELSE /\ tracks' = st.tracks
               /\ file' = st.file
               /\ am_tracks' = batch_update_track_comments(am_tracks, st.updates,
                                    gateway_ok(fault))
               /\ IF st.undo_track_states # <<>>
                  THEN /\ undo_stack' = stacks.undo
                       /\ redo_stack' = stacks.redo
                  ELSE UNCHANGED <<undo_stack, redo_stack>>

BatchAddTag(ids, tag, fault) == BatchTag("add", ids, tag, fault)

BatchRemoveTag(ids, tag, fault) == BatchTag("remove", ids, tag, fault)

\* track_data: (id, persistent id) of the ids the store knows
RECURSIVE track_data(_, _)
track_data(db, ids) ==
    IF ids = <<>> THEN <<>>
    ELSE IF has_track(db, ids[1])
    THEN <<[id |-> ids[1], persistent_id |-> db[ids[1]].persistent_id]>>
             \o track_data(db, Tail(ids))
    ELSE track_data(db, Tail(ids))

AddToPlaylist(track_ids, playlist_id, fault) ==
    /\ Len(undo_stack) < MaxStack
    /\ UNCHANGED <<tracks, playlists, file, sync_vars>>
    /\ IF playlist_id \notin DOMAIN playlists
       THEN /\ ret' = Ret("add_to_playlist", "err", fault)
            /\ UNCHANGED <<playlist_tracks, undo_stack, redo_stack>>
       ELSE LET playlist_pid == playlists[playlist_id].persistent_id
                data == track_data(tracks, track_ids)
                stacks == push([undo |-> undo_stack, redo |-> redo_stack],
                               AddToPlaylistAction(playlist_id, playlist_pid, data))
            IN /\ ret' = Ret("add_to_playlist", "ok", fault)
               /\ playlist_tracks' =
                    compact(add_refs_db(playlist_tracks, playlist_id, data, fault))
               /\ IF data # <<>>
                  THEN /\ undo_stack' = stacks.undo
                       /\ redo_stack' = stacks.redo
                  ELSE UNCHANGED <<undo_stack, redo_stack>>

UpdateRating(track_id, rating, fault) ==
    LET found == has_track(tracks, track_id)
        gok == gateway_ok(fault)
        dok == db_ok(fault, track_id)
    IN /\ ret' = Ret("update_rating", IF found /\ gok /\ dok THEN "ok" ELSE "err", fault)
       /\ UNCHANGED <<playlists, playlist_tracks, file, undo_stack, redo_stack, sync_rest>>
       /\ IF ~found \/ ~gok
          THEN UNCHANGED <<tracks, am_tracks>>
          ELSE /\ am_tracks' = update_track_rating(am_tracks,
                                    tracks[track_id].persistent_id, rating, TRUE)
               /\ tracks' = db_update_track_rating(tracks, track_id, rating, dok)

\* playlist_data: the ids of the playlists the store knows, in the order given
RECURSIVE playlist_data(_, _)
playlist_data(pl, playlist_ids) ==
    IF playlist_ids = <<>> THEN <<>>
    ELSE IF playlist_ids[1] \in DOMAIN pl
    THEN <<playlist_ids[1]>> \o playlist_data(pl, Tail(playlist_ids))
    ELSE playlist_data(pl, Tail(playlist_ids))

\* step 1 of copy_playlist_memberships, store part: the target joins each playlist
RECURSIVE copy_add(_, _, _, _)
copy_add(pt, data, target_track_id, ok) ==
    IF data = <<>> THEN pt
    ELSE copy_add(IF ok THEN add_track_to_playlist_db(pt, data[1], target_track_id) ELSE pt,
                  Tail(data), target_track_id, ok)

\* step 3 of copy_playlist_memberships, store part: the source leaves each playlist
RECURSIVE copy_remove(_, _, _, _)
copy_remove(pt, data, source_track_id, ok) ==
    IF data = <<>> THEN pt
    ELSE copy_remove(IF ok THEN remove_track_from_playlist(pt, data[1], source_track_id)
                     ELSE pt,
                     Tail(data), source_track_id, ok)

\* the play counts live in the external library alone and are left out
CopyPlaylistMemberships(target_track_id, source_track_id, playlist_ids, remove_source, fault) ==
    LET found == has_track(tracks, target_track_id) /\ has_track(tracks, source_track_id)
        data == playlist_data(playlists, playlist_ids)
        added == copy_add(playlist_tracks, data, target_track_id,
                          db_ok(fault, target_track_id))
        removed == IF remove_source
                   THEN copy_remove(added, data, source_track_id,
                                    db_ok(fault, source_track_id))
                   ELSE added
    IN /\ ret' = Ret("copy_playlist_memberships", IF found THEN "ok" ELSE "err", fault)
       /\ UNCHANGED <<tracks, playlists, file, undo_stack, redo_stack, sync_vars>>
       /\ playlist_tracks' = IF found THEN compact(removed) ELSE playlist_tracks

\* an undo that pops the action and forgets it
undo_move_drops(stacks) ==
    [undo |-> SubSeq(stacks.undo, 1, Len(stacks.undo) - 1), redo |-> stacks.redo]

\* UndoStack::undo moves the popped action to the redo stack
undo_move(stacks) ==
    [undo |-> SubSeq(stacks.undo, 1, Len(stacks.undo) - 1),
     redo |-> Append(stacks.redo, stacks.undo[Len(stacks.undo)])]

\* UndoStack::redo moves the popped action back to the undo stack
redo_move(stacks) ==
    [undo |-> Append(stacks.undo, stacks.redo[Len(stacks.redo)]),
     redo |-> SubSeq(stacks.redo, 1, Len(stacks.redo) - 1)]

\* no file or store write of the step failed for a track of the action
Clean(action, fault) ==
    \A i \in 1..Len(action.tracks) :
        file_ok(fault, action.tracks[i].id) /\ db_ok(fault, action.tracks[i].id)

\* the stores after the match arm of undo (revert = TRUE) or redo (revert = FALSE)
apply_action(action, revert, fault) ==
    IF action.kind = "UpdateTrackComments"
    THEN LET st0 == [tracks |-> tracks, file |-> file, updates |-> <<>>]
             st == IF revert THEN undo_comments(action.tracks, st0, fault)
                   ELSE redo_comments(action.tracks, st0, fault)
         IN [tracks |-> st.tracks, file |-> st.file, updates |-> st.updates,
             playlist_tracks |-> playlist_tracks]
    ELSE IF action.kind = "UpdateTrackInfo"
    THEN LET st == apply_track_info([tracks |-> tracks, file |-> file, updates |-> <<>>],
                                    action.track, revert, fault)
         IN [tracks |-> st.tracks, file |-> st.file, updates |-> st.updates,
             playlist_tracks |-> playlist_tracks]
    ELSE [tracks |-> tracks, file |-> file, updates |-> <<>>,
          playlist_tracks |->
              IF revert
              THEN remove_refs_db(playlist_tracks, action.playlist_id, action.tracks, fault)
              ELSE add_refs_db(playlist_tracks, action.playlist_id, action.tracks, fault)]

Undo(fault) ==
    /\ UNCHANGED <<playlists, sync_rest>>
    /\ IF undo_stack = <<>>
       THEN /\ ret' = Ret("undo", "none", fault)
            /\ UNCHANGED <<tracks, playlist_tracks, file, am_tracks, undo_stack,
                           redo_stack>>
       ELSE LET action == undo_stack[Len(undo_stack)]
                after == apply_action(action, TRUE, fault)
                stacks == undo_move([undo |-> undo_stack, redo |-> redo_stack])
            IN /\ ret' = Ret("undo", "some", fault)
               /\ tracks' = after.tracks
               /\ file' = after.file
               /\ am_tracks' = batch_update_track_comments(am_tracks, after.updates,
                                    gateway_ok(fault))
               /\ playlist_tracks' = compact(after.playlist_tracks)
               /\ undo_stack' = stacks.undo
               /\ redo_stack' = stacks.redo

Redo(fault) ==
    /\ UNCHANGED <<playlists, sync_rest>>
    /\ IF redo_stack = <<>>
       THEN /\ ret' = Ret("redo", "none", fault)
            /\ UNCHANGED <<tracks, playlist_tracks, file, am_tracks, undo_stack,
                           redo_stack>>
       ELSE LET action == redo_stack[Len(redo_stack)]
                after == apply_action(action, FALSE, fault)
                stacks == redo_move([undo |-> undo_stack, redo |-> redo_stack])
            IN /\ ret' = Ret("redo", "some", fault)
               /\ tracks' = after.tracks
               /\ file' = after.file
               /\ am_tracks' = batch_update_track_comments(am_tracks, after.updates,
                                    gateway_ok(fault))
               /\ playlist_tracks' = compact(after.playlist_tracks)
               /\ undo_stack' = stacks.undo
               /\ redo_stack' = stacks.redo

(***************************************************************************)
(* The order in which each command takes its locks and makes its writes    *)
(***************************************************************************)
\* op is "lock" or "unlock" on "db" or "undo_stack", or a write "file", "store"
\* or "gateway" on a track id
Ev(op, on) == [op |-> op, on |-> on]

Writes(op, ids) == [i \in 1..Len(ids) |-> Ev(op, ids[i])]

\* a write_tags that pushes its action with the store lock still held
write_tags_log_held(id, fault) ==
    <<Ev("lock", "db"), Ev("file", id), Ev("gateway", id), Ev("store", id),
      Ev("lock", "undo_stack"), Ev("unlock", "undo_stack"), Ev("unlock", "db")>>

\* write_tags: the store lock is taken first and dropped before the push
write_tags_log(id, fault) ==
    <<Ev("lock", "db")>>
    \o (IF ~has_track(tracks, id) THEN <<Ev("unlock", "db")>>
        ELSE <<Ev("file", id)>>
             \o (IF ~(file_ok(fault, id) /\ tracks[id].file_path \in DOMAIN file)
                 THEN <<Ev("unlock", "db")>>
                 ELSE <<Ev("gateway", id), Ev("store", id)>>
                      \o (IF ~db_ok(fault, id) THEN <<Ev("unlock", "db")>>
                          ELSE <<Ev("unlock", "db"), Ev("lock", "undo_stack"),
                                 Ev("unlock", "undo_stack")>>)))

\* the write loop of batch_add_tag and batch_remove_tag: its steps, and the ids
\* queued for the gateway
RECURSIVE batch_loop_log(_, _, _, _)
batch_loop_log(kind, list, raw_tag, fault) ==
    IF list = <<>> THEN [log |-> <<>>, queued |-> <<>>]
    ELSE LET id == list[1].id
             track == list[1].row
             current_comment == unwrap_or_default(track.comment_raw)
             edit == IF kind = "add" THEN add_tag_edit(current_comment, raw_tag)
                     ELSE remove_tag_edit(current_comment, raw_tag)
             wrote == file_ok(fault, id) /\ track.file_path \in DOMAIN file
             rest == batch_loop_log(kind, Tail(list), raw_tag, fault)
         IN IF ~edit.changed THEN rest
            ELSE IF ~wrote
            THEN [log |-> <<Ev("file", id)>> \o rest.log, queued |-> rest.queued]
            ELSE [log |-> <<Ev("file", id), Ev("lock", "db"), Ev("store", id),
                            Ev("unlock", "db")>> \o rest.log,
                  queued |-> (IF track.persistent_id # "" THEN <<id>> ELSE <<>>)
                             \o rest.queued]

\* batch_add_tag and batch_remove_tag: the rows are read under the lock, the lock
\* is dropped, the loop runs, the queue is flushed, the action is pushed
batch_log(kind, ids, tag, fault) ==
    LET r == batch_loop_log(kind, tracks_to_update(tracks, ids), trim(tag), fault)
    IN IF trim(tag) = <<>> THEN <<>>
       ELSE <<Ev("lock", "db"), Ev("unlock", "db")>> \o r.log
            \o Writes("gateway", r.queued)
            \o (IF r.log # <<>>
                THEN <<Ev("lock", "undo_stack"), Ev("unlock", "undo_stack")>>
                ELSE <<>>)

\* add_to_playlist: ids read in one lock scope, gateway calls, store writes in a
\* second lock scope, then the push
add_to_playlist_log(track_ids, playlist_id) ==
    LET data == track_data(tracks, track_ids)
        ids == [i \in 1..Len(data) |-> data[i].id]
    IN IF playlist_id \notin DOMAIN playlists
       THEN <<Ev("lock", "db"), Ev("unlock", "db")>>
       ELSE <<Ev("lock", "db"), Ev("unlock", "db")>> \o Writes("gateway", ids)
            \o <<Ev("lock", "db")>> \o Writes("store", ids) \o <<Ev("unlock", "db")>>
            \o (IF data # <<>>
                THEN <<Ev("lock", "undo_stack"), Ev("unlock", "undo_stack")>>
                ELSE <<>>)

\* update_rating: the store lock is held from the first statement to the return
update_rating_log(track_id, fault) ==
    <<Ev("lock", "db")>>
    \o (IF ~has_track(tracks, track_id) THEN <<>>
        ELSE <<Ev("gateway", track_id)>>
             \o (IF gateway_ok(fault) THEN <<Ev("store", track_id)>> ELSE <<>>))
    \o <<Ev("unlock", "db")>>

\* the loop of undo (revert) or redo over the tracks of a comment action
RECURSIVE comments_log(_, _, _)
comments_log(list, revert, fault) ==
    IF list = <<>> THEN [log |-> <<>>, queued |-> <<>>]
    ELSE LET track == list[1]
             rest == comments_log(Tail(list), revert, fault)
             wrote == file_ok(fault, track.id) /\ track.file_path \in DOMAIN file
         IN IF revert /\ ~wrote
            THEN [log |-> <<Ev("file", track.id)>> \o rest.log, queued |-> rest.queued]
            ELSE [log |-> <<Ev("file", track.id), Ev("store", track.id)>> \o rest.log,
                  queued |-> (IF track.persistent_id # "" THEN <<track.id>> ELSE <<>>)
                             \o rest.queued]

\* the match arm of undo (revert) or redo for one action
action_log(action, revert, fault) ==
    IF action.kind = "UpdateTrackComments"
    THEN comments_log(action.tracks, revert, fault).log
         \o Writes("gateway", comments_log(action.tracks, revert, fault).queued)
    ELSE IF action.kind = "UpdateTrackInfo"
    THEN LET track == action.track
             title == IF revert THEN track.old_title ELSE track.new_title
             comment_raw == IF revert THEN track.old_comment_raw
                            ELSE track.new_comment_raw
             each == (IF title.some THEN <<track.id>> ELSE <<>>)
                     \o (IF comment_raw.some THEN <<track.id>> ELSE <<>>)
         IN <<Ev("store", track.id)>> \o Writes("file", each)
            \o (IF track.persistent_id # "" THEN Writes("gateway", each) ELSE <<>>)
    ELSE LET ids == [i \in 1..Len(action.tracks) |-> action.tracks[i].id]
         IN Writes("gateway", ids) \o Writes("store", ids)

\* undo and redo: the undo-stack lock, then the store lock, both held to the return
stack_log(stack, revert, fault) ==
    <<Ev("lock", "undo_stack"), Ev("lock", "db")>>
    \o (IF stack = <<>> THEN <<>> ELSE action_log(stack[Len(stack)], revert, fault))
    \o <<Ev("unlock", "db"), Ev("unlock", "undo_stack")>>

(***************************************************************************)
(* Rows and inputs                                                         *)
(***************************************************************************)
Text_c_h_p == <<"c", " ", "&", "&", " ", "h", ";", " ", "p">>

Text_H == <<" ", "&", "&", " ", "H">>

Text_p == <<" ", "&", "&", " ", "p">>

TrackIds == {1, 2}

Faults == {NoFault, GatewayFault, FileFault(1), DbFault(1)}

InitRet == [op |-> "init", result |-> "ok", fault |-> "none", redo_before |-> 0]

\* no comment is being encoded
CodecIdle ==
    [phase |-> "idle", user_comment |-> <<>>, tags |-> <<>>, encoded |-> <<>>,
     decoded |-> [user_comment |-> <<>>, tags |-> <<>>]]

\* let last_emit_time = Instant::now().checked_sub(Duration::from_secs(60)):
\* the watcher thread reaches its loop at time 0 and has handled no event
WatcherIdle ==
    [now |-> 0, last_emit_time |-> 0 - 60, last |-> "none", events |-> {}, emits |-> {}]

(***************************************************************************)
(* Observers of a history: they read the program's state and never feed it *)
(***************************************************************************)
RunIdle ==
    [track |-> 0, w |-> 0, u |-> 0, r |-> 0, base_db |-> None, last |-> <<>>]

\* after write_tags(id, new_tags): a run of successful edits of one track, begun
\* where the file and the store hold the same comment
RunEdit(id, new_tags) ==
    IF ret'.result # "ok" THEN RunIdle
    ELSE IF run.track = id /\ run.u = 0 /\ run.r = 0
    THEN [run EXCEPT !.w = @ + 1, !.last = new_tags]
    ELSE IF file[tracks[id].file_path] = unwrap_or_default(tracks[id].comment_raw)
    THEN [track |-> id, w |-> 1, u |-> 0, r |-> 0,
          base_db |-> tracks[id].comment_raw, last |-> new_tags]
    ELSE RunIdle

\* after undo(): one more of the run's edits is undone, all writes succeeding
RunUndo(fault) ==
    IF /\ undo_stack # <<>>
       /\ Clean(undo_stack[Len(undo_stack)], fault)
       /\ run.track # 0 /\ run.r = 0 /\ run.u < run.w
    THEN [run EXCEPT !.u = @ + 1] ELSE RunIdle

\* after redo(): one more of the run's edits is redone, all writes succeeding
RunRedo(fault) ==
    IF /\ redo_stack # <<>>
       /\ Clean(redo_stack[Len(redo_stack)], fault)
       /\ run.track # 0 /\ run.u = run.w /\ run.r < run.w
    THEN [run EXCEPT !.r = @ + 1] ELSE RunIdle

Comments(db) == [id \in DOMAIN db |-> unwrap_or_default(db[id].comment_raw)]

CycIdle ==
    [on |-> FALSE, depth |-> 0, ids |-> {},
     pre_db |-> <<>>, pre_file |-> <<>>, post_db |-> <<>>, post_file |-> <<>>]

\* after a batch command: the action it recorded, the comments before and after it
CycBatch ==
    IF undo_stack' = undo_stack THEN cyc
    ELSE [on |-> TRUE, depth |-> 0,
          ids |-> StateIds(undo_stack'[Len(undo_stack')].tracks),
          pre_db |-> Comments(tracks), pre_file |-> file,
          post_db |-> Comments(tracks'), post_file |-> file']

\* after add_to_playlist: the action it recorded, the ordered membership of the
\* playlist before and after it
CycAdd(playlist_id) ==
    IF undo_stack' = undo_stack THEN CycIdle
    ELSE [CycIdle EXCEPT
             !.on = TRUE, !.ids = {playlist_id},
             !.pre_db = get_playlist_track_ids(playlist_tracks, playlist_id),
             !.post_db = get_playlist_track_ids(playlist_tracks', playlist_id)]

\* after undo(): the recorded action is undone, or the cycle is left
CycUndo ==
    IF undo_stack = <<>> THEN cyc
    ELSE IF cyc.on /\ cyc.depth = 0 THEN [cyc EXCEPT !.depth = 1] ELSE CycIdle

\* after redo(): the recorded action is redone, or the cycle is left
CycRedo ==
    IF redo_stack = <<>> THEN cyc
    ELSE IF cyc.on /\ cyc.depth = 1 THEN [cyc EXCEPT !.depth = 0] ELSE CycIdle

(***************************************************************************)
(* Specifications of the edit commands with undo and redo                  *)
(***************************************************************************)
InitStores(c1, c2) ==
    /\ tracks = (1 :> TrackRow("P1", "f1", c1)) @@ (2 :> TrackRow("", "f2", c2))
    /\ file = ("f1" :> unwrap_or_default(c1)) @@ ("f2" :> unwrap_or_default(c2))
    /\ playlists = (1 :> PlaylistRow("L1", "", "n", FALSE))
    /\ am_tracks = <<>>
    /\ am_playlists = <<>>
    /\ undo_stack = <<>>
    /\ redo_stack = <<>>
    /\ ret = InitRet
    /\ run = RunIdle
    /\ cyc = CycIdle
    /\ is_syncing = FALSE
    /\ task = <<>>
    /\ quiet = [valid |-> FALSE, since |-> 0]
    /\ codec = CodecIdle
    /\ watcher = WatcherIdle
    /\ tags_table = <<>>
    /\ log = <<>>

InitEdit ==
    /\ InitStores(Some(Text_c_h_p), Some(Text_H))
    /\ playlist_tracks = {[playlist_id |-> 1, track_id |-> 1, position |-> 0]}

\* every edit command, undo and redo, each with any single fault
NextEdit ==
    /\ UNCHANGED <<run, cyc, log>>
    /\ \/ \E id \in {1, 3} : WriteTags(id, Text_p, NoFault)
       \/ \E fault \in {NoFault, FileFault(1)} : BatchAddTag(<<1, 2>>, <<"H">>, fault)
       \/ BatchRemoveTag(<<1, 2>>, <<"H">>, NoFault)
       \/ \E playlist_id \in {1, 2}, fault \in {NoFault, DbFault(1)} :
             AddToPlaylist(<<2, 1>>, playlist_id, fault)
       \/ \E fault \in Faults : Undo(fault)
       \/ \E fault \in Faults : Redo(fault)

SpecEdit == InitEdit /\ [][NextEdit]_vars

\* add_to_playlist with tracks that are members already, tracks that are not and
\* unknown tracks, undo and redo, observed by cyc
NextMember ==
    /\ UNCHANGED <<run, log>>
    /\ \/ \E track_ids \in {<<2>>, <<2, 1>>, <<1>>, <<3>>}, playlist_id \in {1, 2} :
             AddToPlaylist(track_ids, playlist_id, NoFault) /\ cyc' = CycAdd(playlist_id)
       \/ Undo(NoFault) /\ cyc' = CycUndo
       \/ Redo(NoFault) /\ cyc' = CycRedo

SpecMember == InitEdit /\ [][NextMember]_vars

InitRun ==
    /\ \E c1 \in {None, Some(Text_c_h_p)} : InitStores(c1, Some(Text_H))
    /\ playlist_tracks = {}

\* write_tags edits, undo and redo, observed by run
NextRun ==
    /\ UNCHANGED <<cyc, log>>
    /\ \/ \E id \in {1, 3}, new_tags \in {<<"d">>, Text_p}, fault \in Faults :
             WriteTags(id, new_tags, fault) /\ run' = RunEdit(id, new_tags)
       \/ \E fault \in Faults : Undo(fault) /\ run' = RunUndo(fault)
       \/ \E fault \in Faults : Redo(fault) /\ run' = RunRedo(fault)

SpecRun == InitRun /\ [][NextRun]_vars

\* batch tag edits, undo and redo, observed by cyc
NextCycle ==
    /\ UNCHANGED <<run, log>>
    /\ \/ \E ids \in {<<1, 2>>, <<3>>}, tag \in {<<"H">>, <<" ">>}, fault \in Faults :
             BatchAddTag(ids, tag, fault) /\ cyc' = CycBatch
       \/ \E ids \in {<<1, 2>>, <<3>>}, tag \in {<<"H">>, <<" ">>}, fault \in Faults :
             BatchRemoveTag(ids, tag, fault) /\ cyc' = CycBatch
       \/ \E fault \in Faults : Undo(fault) /\ cyc' = CycUndo
       \/ \E fault \in Faults : Redo(fault) /\ cyc' = CycRedo

SpecCycle == InitRun /\ [][NextCycle]_vars

(***************************************************************************)
(* Specification of the batch tag edits over a range of comments and tags  *)
(***************************************************************************)
Text_club == <<"c", "l", "u", "b", " ", "b", "a", "n", "g", "e", "r">>

Text_house == <<"h", "o", "u", "s", "e">>

Text_House == <<"H", "o", "u", "s", "e">>

Text_peak == <<"p", "e", "a", "k", "-", "t", "i", "m", "e">>

\* "club banger && house; peak-time"
Text_club_house_peak == Text_club \o DELIMITER \o Text_house \o <<";", " ">> \o Text_peak

\* "c && H; p; h"
Text_c_H_p_h == <<"c", " ", "&", "&", " ", "H", ";", " ", "p", ";", " ", "h">>

TagComments == {None, Some(Text_H), Some(Text_c_H_p_h), Some(Text_club_house_peak)}

TagInputs == {<<"H">>, <<" ", "h">>, <<"p">>, <<" ">>, Text_House, Text_peak}

TagFaults == {NoFault, FileFault(1), DbFault(1)}

\* a library already imported: track 1 is in the external library with the same
\* comment, track 2 is a file the external library does not know
InitTags ==
    /\ \E c1 \in TagComments :
           /\ tracks = (1 :> TrackRow("P1", "f1", c1)) @@ (2 :> TrackRow("", "f2", Some(Text_H)))
           /\ file = ("f1" :> unwrap_or_default(c1)) @@ ("f2" :> Text_H)
           /\ am_tracks = <<[persistent_id |-> "P1", location |-> "f1",
                             comment |-> unwrap_or_default(c1), rating |-> 0, bpm |-> 0,
                             modification_date |-> 1]>>
    /\ playlists = (1 :> PlaylistRow("L1", "", "n", FALSE))
    /\ playlist_tracks = {}
    /\ am_playlists = <<>>
    /\ undo_stack = <<>>
    /\ redo_stack = <<>>
    /\ ret = InitRet
    /\ run = RunIdle
    /\ cyc = CycIdle
    /\ is_syncing = FALSE
    /\ task = <<>>
    /\ quiet = [valid |-> FALSE, since |-> 0]
    /\ codec = CodecIdle
    /\ watcher = WatcherIdle
    /\ tags_table = <<>>
    /\ log = <<>>

\* batch tag edits of tracks 1 and 2 and of an unknown track
NextTags ==
    /\ UNCHANGED <<run, cyc, log>>
    /\ \/ \E tag \in TagInputs, fault \in TagFaults : BatchAddTag(<<1, 2, 3>>, tag, fault)
       \/ \E tag \in TagInputs, fault \in TagFaults :
             BatchRemoveTag(<<1, 2, 3>>, tag, fault)

SpecTags == InitTags /\ [][NextTags]_vars

(***************************************************************************)
(* The tags table: sync_tags and get_all_tags (db.rs, commands.rs)         *)
(***************************************************************************)
\* the trimmed non-empty pieces after the first " && " of a track's comment
track_tags(row) ==
    IF row.comment_raw.some /\ find(row.comment_raw.val, DELIMITER) # 0
    THEN parse_tags(SubSeq(row.comment_raw.val,
                           find(row.comment_raw.val, DELIMITER) + 4,
                           Len(row.comment_raw.val)))
    ELSE <<>>

\* the HashMap of sync_tags: tag name, as written, -> number of occurrences
tag_counts(db) ==
    LET names == UNION {{track_tags(db[id])[i] : i \in 1..Len(track_tags(db[id]))} :
                           id \in DOMAIN db}
    IN [name \in names |->
           Cardinality({pos \in UNION {{<<id, i>> : i \in 1..Len(track_tags(db[id]))} :
                                          id \in DOMAIN db} :
                           track_tags(db[pos[1]])[pos[2]] = name})]

\* the names of the map that the NOCASE column takes for one name
same_nocase(counts, key) == {name \in DOMAIN counts : to_lowercase(name) = key}

\* the orders in which the HashMap may be iterated, as far as the table can tell:
\* for each NOCASE name, the name upserted first and the name upserted last
iteration_orders(counts) ==
    LET keys == {to_lowercase(name) : name \in DOMAIN counts}
    IN {o \in [keys -> [first : DOMAIN counts, last : DOMAIN counts]] :
           \A key \in keys :
               /\ o[key].first \in same_nocase(counts, key)
               /\ o[key].last \in same_nocase(counts, key)
               /\ (o[key].first = o[key].last) = (Cardinality(same_nocase(counts, key)) = 1)}

\* INSERT INTO tags (name, usage_count) ... ON CONFLICT(name) DO UPDATE SET usage_count,
\* once per entry of the map; rows of names not in the map are left as they are
sync_tags(table, db, order) ==
    LET counts == tag_counts(db)
    IN [key \in DOMAIN table \cup DOMAIN order |->
           IF key \in DOMAIN order
           THEN [name |-> IF key \in DOMAIN table THEN table[key].name
                          ELSE order[key].first,
                 usage_count |-> counts[order[key].last]]
           ELSE table[key]]

\* get_all_tags: sync_tags, then the rows of the table
GetAllTags ==
    /\ \E order \in iteration_orders(tag_counts(tracks)) :
           tags_table' = sync_tags(tags_table, tracks, order)
    /\ ret' = Ret("get_all_tags", "ok", NoFault)
    /\ UNCHANGED <<tracks, playlists, playlist_tracks, file, am_tracks, undo_stack,
                   redo_stack, run, cyc, codec, watcher, am_playlists, is_syncing, task,
                   quiet, log>>

\* batch tag edits of tracks 1 and 2, and get_all_tags between them
NextTagTable ==
    \/ /\ UNCHANGED <<run, cyc, log>>
       /\ \E tag \in {<<"H">>, <<" ", "h">>, <<"p">>} :
              \/ BatchAddTag(<<1, 2>>, tag, NoFault)
              \/ BatchRemoveTag(<<1, 2>>, tag, NoFault)
    \/ GetAllTags

SpecTagTable == InitTags /\ [][NextTagTable]_vars

(***************************************************************************)
(* Specification of write_tags on a library the external library mirrors   *)
(***************************************************************************)
WriteInputs == {<<"d">>, Text_p}

\* write_tags of tracks 1 and 2 and of an unknown track, undo and redo
NextWrite ==
    /\ UNCHANGED <<run, cyc, log>>
    /\ \/ \E id \in {1, 2, 3}, new_tags \in WriteInputs, fault \in Faults :
             WriteTags(id, new_tags, fault)
       \/ \E fault \in Faults : Undo(fault)
       \/ \E fault \in Faults : Redo(fault)

SpecWrite == InitTags /\ [][NextWrite]_vars

(***************************************************************************)
(* Specification of the commands that mirror an edit to the external       *)
(* library, each with the gateway working or failing                       *)
(***************************************************************************)
MirrorFaults == {NoFault, GatewayFault}

Ratings == {0, 60}

NextMirror ==
    /\ UNCHANGED <<run, cyc, log>>
    /\ \E fault \in MirrorFaults :
           \/ \E id \in {1, 2} : WriteTags(id, Text_p, fault)
           \/ BatchAddTag(<<1, 2>>, <<"H">>, fault)
           \/ BatchRemoveTag(<<1, 2>>, <<"H">>, fault)
           \/ AddToPlaylist(<<2, 1>>, 1, fault)
           \/ \E rating \in Ratings : UpdateRating(1, rating, fault)
           \/ \E remove_source \in BOOLEAN :
                 CopyPlaylistMemberships(2, 1, <<1>>, remove_source, fault)

SpecMirror == InitTags /\ [][NextMirror]_vars

(***************************************************************************)
(* Specification of the commands with the order of their steps observed    *)
(***************************************************************************)
\* the store of InitTags; the undo stack is empty or holds the action of an
\* earlier track-info edit of track 1 (title and comment changed)
InitOrder ==
    /\ tracks = (1 :> TrackRow("P1", "f1", Some(Text_c_H_p_h)))
                 @@ (2 :> TrackRow("", "f2", Some(Text_H)))
    /\ file = ("f1" :> Text_c_H_p_h) @@ ("f2" :> Text_H)
    /\ am_tracks = <<[persistent_id |-> "P1", location |-> "f1",
                      comment |-> Text_c_H_p_h, rating |-> 0, bpm |-> 0,
                      modification_date |-> 1]>>
    /\ playlists = (1 :> PlaylistRow("L1", "", "n", FALSE))
    /\ playlist_tracks = {}
    /\ am_playlists = <<>>
    /\ undo_stack \in
          {<<>>,
           <<UpdateTrackInfoAction(
                 TrackInfoState(1, TrackRow("P1", "f1", None), Some("s"), Some("t"),
                                Some(Text_H), Some(Text_c_H_p_h)))>>}
    /\ redo_stack = <<>>
    /\ ret = InitRet
    /\ run = RunIdle
    /\ cyc = CycIdle
    /\ is_syncing = FALSE
    /\ task = <<>>
    /\ quiet = [valid |-> FALSE, since |-> 0]
    /\ codec = CodecIdle
    /\ watcher = WatcherIdle
    /\ tags_table = <<>>
    /\ log = <<>>

OrderFaults == {NoFault, FileFault(1)}

\* the seven commands, each with any single fault, log observing their steps
NextOrder ==
    /\ UNCHANGED <<run, cyc>>
    /\ \E fault \in OrderFaults :
           \/ \E id \in {1, 3} :
                 WriteTags(id, Text_p, fault) /\ log' = write_tags_log(id, fault)
           \/ BatchAddTag(<<1, 2>>, <<"d">>, fault)
                 /\ log' = batch_log("add", <<1, 2>>, <<"d">>, fault)
           \/ BatchRemoveTag(<<1, 2>>, <<"d">>, fault)
                 /\ log' = batch_log("remove", <<1, 2>>, <<"d">>, fault)
           \/ AddToPlaylist(<<2, 1>>, 1, fault) /\ log' = add_to_playlist_log(<<2, 1>>, 1)
           \/ UpdateRating(1, 60, fault) /\ log' = update_rating_log(1, fault)
           \/ Undo(fault) /\ log' = stack_log(undo_stack, TRUE, fault)
           \/ Redo(fault) /\ log' = stack_log(redo_stack, FALSE, fault)

SpecOrder == InitOrder /\ [][NextOrder]_vars

(***************************************************************************)
(* Specification of the comment codec: encode, then decode                 *)
(***************************************************************************)
Seqs(S, n) == UNION {[1..k -> S] : k \in 0..n}

CodecComments == Seqs({"a", " ", "&"}, MaxCommentLen)

CodecTags == Seqs({"a", "H", " ", ";"}, MaxTagLen)

CodecTagLists == Seqs(CodecTags, MaxTags)

InitCodec ==
    /\ \E user_comment \in CodecComments, tags \in CodecTagLists :
           codec = [CodecIdle EXCEPT !.phase = "input", !.user_comment = user_comment,
                                     !.tags = tags]
    /\ tracks = <<>>
    /\ playlists = <<>>
    /\ playlist_tracks = {}
    /\ file = <<>>
    /\ am_tracks = <<>>
    /\ am_playlists = <<>>
    /\ undo_stack = <<>>
    /\ redo_stack = <<>>
    /\ ret = InitRet
    /\ run = RunIdle
    /\ cyc = CycIdle
    /\ is_syncing = FALSE
    /\ task = <<>>
    /\ quiet = [valid |-> FALSE, since |-> 0]
    /\ watcher = WatcherIdle
    /\ tags_table = <<>>
    /\ log = <<>>

\* what the codec leaves alone
codec_rest == <<tracks, playlists, playlist_tracks, file, am_tracks, am_playlists,
                undo_stack, redo_stack, ret, run, cyc, is_syncing, task, quiet,
                watcher, tags_table, log>>

\* the re-encoding of batch_add_tag and batch_remove_tag
Encode ==
    /\ codec.phase = "input"
    /\ codec' = [codec EXCEPT !.phase = "encoded",
                              !.encoded = reconstruct(codec.user_comment, codec.tags)]
    /\ UNCHANGED codec_rest

\* the decoding of batch_add_tag and batch_remove_tag
Decode ==
    /\ codec.phase = "encoded"
    /\ codec' = [codec EXCEPT
                    !.phase = "decoded",
                    !.decoded = [user_comment |-> split_comment(codec.encoded).user_comment,
                                 tags |-> parse_tags(split_comment(codec.encoded).tag_block)]]
    /\ UNCHANGED codec_rest

NextCodec == Encode \/ Decode

\* get_global_tags, one track: the tags it inserts into the set, in order
global_tags(comment_raw) ==
    IF comment_raw.some /\ find(comment_raw.val, DELIMITER) # 0
    THEN parse_tags(SubSeq(comment_raw.val, find(comment_raw.val, DELIMITER) + 4,
                           Len(comment_raw.val)))
    ELSE <<>>

\* metadata::write_tags: the comment written over existing_comment, whose part
\* left of the first delimiter is kept
final_comment(existing_comment, new_tags_string) ==
    LET idx == find(existing_comment, DELIMITER)
        user_part == IF idx # 0 THEN SubSeq(existing_comment, 1, idx - 1)
                     ELSE existing_comment
    IN IF trim(user_part) = <<>>
       THEN IF new_tags_string = <<>> THEN <<>>
            ELSE trim(DELIMITER) \o new_tags_string
       ELSE IF new_tags_string = <<>> THEN user_part
            ELSE user_part \o DELIMITER \o new_tags_string

\* the encoding of metadata::write_tags
EncodeFile ==
    /\ codec.phase = "input"
    /\ codec' = [codec EXCEPT
                    !.phase = "file",
                    !.encoded = final_comment(codec.user_comment,
                                              join(codec.tags, <<";", " ">>))]
    /\ UNCHANGED codec_rest

\* the decoding of get_global_tags
DecodeGlobal ==
    /\ codec.phase = "encoded"
    /\ codec' = [codec EXCEPT
                    !.phase = "global",
                    !.decoded = [user_comment |-> <<>>,
                                 tags |-> global_tags(Some(codec.encoded))]]
    /\ UNCHANGED codec_rest

\* the decoding of sync_tags
DecodeSync ==
    /\ codec.phase = "encoded"
    /\ codec' = [codec EXCEPT
                    !.phase = "sync",
                    !.decoded = [user_comment |-> <<>>,
                                 tags |-> track_tags(TrackRow("", "", Some(codec.encoded)))]]
    /\ UNCHANGED codec_rest

\* every encoder and every decoder of the code, on the same inputs
NextCoders == Encode \/ EncodeFile \/ Decode \/ DecodeGlobal \/ DecodeSync

SpecCoders == InitCodec /\ [][NextCoders]_vars

SpecCodec == InitCodec /\ [][NextCodec]_vars

(***************************************************************************)
(* The external library and its gateway (apple_music.rs)                   *)
(***************************************************************************)
AmTrack(pid, location, comment, rating, bpm, modification_date) ==
    [persistent_id |-> pid, location |-> location, comment |-> comment,
     rating |-> rating, bpm |-> bpm, modification_date |-> modification_date]

AmPlaylist(pid, parent, name, is_folder, track_ids) ==
    [persistent_id |-> pid, parent_persistent_id |-> parent, name |-> name,
     is_folder |-> is_folder, track_ids |-> track_ids]

\* the Track get_changes_since builds from one external track
changed_track(jt) ==
    [TrackRow(jt.persistent_id, jt.location, Some(jt.comment)) EXCEPT
         !.rating = jt.rating, !.bpm = jt.bpm, !.modified_date = 0, !.date_added = 0]

\* every track whose modification date >= sinceDate
get_changes_since(am, since) ==
    LET recent == SelectSeq(am, LAMBDA jt : jt.modification_date >= since)
    IN [i \in 1..Len(recent) |-> changed_track(recent[i])]

get_snapshot_fields(am) ==
    [i \in 1..Len(am) |->
        [persistent_id |-> am[i].persistent_id, rating |-> am[i].rating, bpm |-> am[i].bpm]]

\* every playlist with its track persistent ids; folders have no tracks
get_playlist_snapshot(amp) ==
    [i \in 1..Len(amp) |->
        IF amp[i].is_folder THEN [amp[i] EXCEPT !.track_ids = <<>>] ELSE amp[i]]

\* the full library: every track and every playlist
fetch_system_library(am, amp) ==
    [tracks |-> [i \in 1..Len(am) |->
                    [changed_track(am[i]) EXCEPT
                         !.modified_date = am[i].modification_date, !.date_added = 1]],
     playlists |-> get_playlist_snapshot(amp)]

(***************************************************************************)
(* Local store: upserts and snapshots (db.rs)                              *)
(***************************************************************************)
\* AUTOINCREMENT: one more than the largest id, as long as the row holding the
\* largest id is never deleted
next_id(table) ==
    IF DOMAIN table = {} THEN 1
    ELSE 1 + CHOOSE m \in DOMAIN table : \A id \in DOMAIN table : id <= m

ids_of_pid(table, pid) == {id \in DOMAIN table : table[id].persistent_id = pid}

\* INSERT OR IGNORE: a known persistent_id keeps its row as it is
insert_track_ignore(db, track, ok) ==
    IF ~ok \/ ids_of_pid(db, track.persistent_id) # {} THEN db
    ELSE db @@ (next_id(db) :> [track EXCEPT !.missing = FALSE])

\* an insert that ignores the conflict on persistent_id and always adds a row
insert_track_append(db, track, ok) ==
    IF ~ok THEN db ELSE db @@ (next_id(db) :> [track EXCEPT !.missing = FALSE])

\* INSERT INTO tracks ... ON CONFLICT(persistent_id) DO UPDATE SET ...
insert_track(db, track, ok) ==
    LET hit == ids_of_pid(db, track.persistent_id)
    IN IF ~ok THEN db
       ELSE IF hit # {}
       THEN [id \in DOMAIN db |->
                IF id \in hit
                THEN [db[id] EXCEPT !.file_path = track.file_path,
                                    !.title = track.title,
                                    !.comment_raw = track.comment_raw,
                                    !.modified_date = track.modified_date,
                                    !.rating = track.rating,
                                    !.date_added = track.date_added,
                                    !.bpm = track.bpm]
                ELSE db[id]]
       ELSE db @@ (next_id(db) :> [track EXCEPT !.missing = FALSE])

\* INSERT INTO playlist_tracks SELECT ?1, id, ?3 FROM tracks WHERE persistent_id = ?2,
\* once per listed pid; a row the primary key rejects is dropped
RECURSIVE insert_members(_, _, _, _, _)
insert_members(pt, playlist_db_id, db, track_pids, index) ==
    IF track_pids = <<>> THEN pt
    ELSE LET found == ids_of_pid(db, track_pids[1])
             fresh == {id \in found :
                          ~\E r \in pt : r.playlist_id = playlist_db_id /\ r.track_id = id}
         IN insert_members(
                pt \cup {[playlist_id |-> playlist_db_id, track_id |-> id,
                          position |-> index] : id \in fresh},
                playlist_db_id, db, Tail(track_pids), index + 1)

\* st = [tracks, playlists, playlist_tracks]
insert_playlist(st, playlist, ok) ==
    LET hit == ids_of_pid(st.playlists, playlist.persistent_id)
        playlist_db_id == IF hit # {} THEN CHOOSE id \in hit : TRUE
                          ELSE next_id(st.playlists)
        row == PlaylistRow(playlist.persistent_id, playlist.parent_persistent_id,
                           playlist.name, playlist.is_folder)
        rows == IF hit # {} THEN [st.playlists EXCEPT ![playlist_db_id] = row]
                ELSE st.playlists @@ (playlist_db_id :> row)
        cleared == {r \in st.playlist_tracks : r.playlist_id # playlist_db_id}
    IN IF ~ok THEN st
       ELSE [st EXCEPT !.playlists = rows,
                       !.playlist_tracks =
                           compact(insert_members(cleared, playlist_db_id, st.tracks,
                                                  playlist.track_ids, 0))]

get_all_track_pids(db) == {db[id].persistent_id : id \in DOMAIN db}

\* persistent id -> (rating, bpm)
get_rating_bpm_snapshot(db) ==
    [pid \in get_all_track_pids(db) |->
        LET id == CHOOSE i \in ids_of_pid(db, pid) : TRUE
        IN [rating |-> db[id].rating, bpm |-> db[id].bpm]]

\* UPDATE tracks SET rating, bpm WHERE persistent_id
update_rating_bpm(db, pid, rating, bpm) ==
    [id \in DOMAIN db |->
        IF db[id].persistent_id = pid
        THEN [db[id] EXCEPT !.rating = rating, !.bpm = bpm] ELSE db[id]]

\* persistent id -> (name, is_folder, parent, ordered track persistent ids)
db_get_playlist_snapshot(st) ==
    [pid \in {st.playlists[id].persistent_id : id \in DOMAIN st.playlists} |->
        LET id == CHOOSE i \in ids_of_pid(st.playlists, pid) : TRUE
            members == get_playlist_track_ids(st.playlist_tracks, id)
        IN [name |-> st.playlists[id].name,
            is_folder |-> st.playlists[id].is_folder,
            parent_persistent_id |-> st.playlists[id].parent_persistent_id,
            track_ids |-> [i \in 1..Len(members) |-> st.tracks[members[i]].persistent_id]]]

\* deletes the playlists named and their membership rows
remove_playlists_by_persistent_ids(st, pids) ==
    LET gone == {id \in DOMAIN st.playlists : st.playlists[id].persistent_id \in pids}
    IN [st EXCEPT !.playlists = [id \in DOMAIN st.playlists \ gone |-> st.playlists[id]],
                  !.playlist_tracks = {r \in st.playlist_tracks : r.playlist_id \notin gone}]

(***************************************************************************)
(* The phases of sync_recent_changes (commands.rs)                         *)
(***************************************************************************)
Store == [tracks |-> tracks, playlists |-> playlists, playlist_tracks |-> playlist_tracks]

\* Phase 1, store part: every returned track is upserted; acc = [st, count, writes]
RECURSIVE phase1(_, _)
phase1(list, acc) ==
    IF list = <<>> THEN acc
    ELSE phase1(Tail(list),
             [st |-> [acc.st EXCEPT !.tracks = insert_track(acc.st.tracks, list[1], TRUE)],
              count |-> acc.count + 1,
              writes |-> acc.writes + 1])

\* a Phase 2 that updates every known track, changed or not
RECURSIVE phase2_always(_, _, _)
phase2_always(snapshot, db_snapshot, acc) ==
    IF snapshot = <<>> THEN acc
    ELSE LET entry == snapshot[1]
         IN phase2_always(Tail(snapshot), db_snapshot,
                IF entry.persistent_id \in DOMAIN db_snapshot
                THEN [st |-> [acc.st EXCEPT !.tracks =
                                  update_rating_bpm(acc.st.tracks, entry.persistent_id,
                                                    entry.rating, entry.bpm)],
                      count |-> acc.count + 1,
                      writes |-> acc.writes + 1]
                ELSE acc)

\* Phase 2, store part: one update per known track whose rating or bpm differs
RECURSIVE phase2(_, _, _)
phase2(snapshot, db_snapshot, acc) ==
    IF snapshot = <<>> THEN acc
    ELSE LET entry == snapshot[1]
             differs == /\ entry.persistent_id \in DOMAIN db_snapshot
                        /\ \/ db_snapshot[entry.persistent_id].rating # entry.rating
                           \/ db_snapshot[entry.persistent_id].bpm # entry.bpm
         IN phase2(Tail(snapshot), db_snapshot,
                IF differs
                THEN [st |-> [acc.st EXCEPT !.tracks =
                                  update_rating_bpm(acc.st.tracks, entry.persistent_id,
                                                    entry.rating, entry.bpm)],
                      count |-> acc.count + 1,
                      writes |-> acc.writes + 1]
                ELSE acc)

\* a filter that lets every id through
filtered_track_ids_all(track_ids, all_track_pids) == track_ids

filtered_track_ids(track_ids, all_track_pids) ==
    SelectSeq(track_ids, LAMBDA tid : tid \in all_track_pids)

\* a comparison of the track lists as sets
needs_upsert_unordered(db_snapshot, mp, filtered) ==
    IF mp.persistent_id \notin DOMAIN db_snapshot THEN TRUE
    ELSE LET row == db_snapshot[mp.persistent_id]
         IN \/ row.name # mp.name
            \/ row.is_folder # mp.is_folder
            \/ row.parent_persistent_id # mp.parent_persistent_id
            \/ {row.track_ids[i] : i \in 1..Len(row.track_ids)}
                   # {filtered[i] : i \in 1..Len(filtered)}

needs_upsert(db_snapshot, mp, filtered) ==
    IF mp.persistent_id \notin DOMAIN db_snapshot THEN TRUE
    ELSE LET row == db_snapshot[mp.persistent_id]
         IN \/ row.name # mp.name
            \/ row.is_folder # mp.is_folder
            \/ row.parent_persistent_id # mp.parent_persistent_id
            \/ row.track_ids # filtered

\* Phase 3, the loop over the external playlists; acc = [st, count, writes, upserted]
RECURSIVE phase3_loop(_, _, _, _)
phase3_loop(music_playlists, db_snapshot, all_track_pids, acc) ==
    IF music_playlists = <<>> THEN acc
    ELSE LET mp == music_playlists[1]
             filtered == filtered_track_ids(mp.track_ids, all_track_pids)
         IN phase3_loop(Tail(music_playlists), db_snapshot, all_track_pids,
                IF needs_upsert(db_snapshot, mp, filtered)
                THEN [st |-> insert_playlist(acc.st,
                                 [mp EXCEPT !.track_ids = filtered], TRUE),
                      count |-> acc.count + 1,
                      writes |-> acc.writes + 1,
                      upserted |-> acc.upserted \cup {mp.persistent_id}]
                ELSE acc)

\* a Phase 3 that deletes nothing
phase3_keeps(st, music_playlists, removed) ==
    phase3_loop(music_playlists, db_get_playlist_snapshot(st),
                get_all_track_pids(st.tracks),
                [st |-> st, count |-> 0, writes |-> 0, upserted |-> {}])

\* Phase 3, store part: playlists gone externally are deleted, new or changed ones
\* upserted; removed = FALSE is the Err of the delete, which is logged and passed over
phase3(st, music_playlists, removed) ==
    LET db_snapshot == db_get_playlist_snapshot(st)
        all_track_pids == get_all_track_pids(st.tracks)
        music_pids == {music_playlists[i].persistent_id : i \in 1..Len(music_playlists)}
        deleted_pids == {pid \in DOMAIN db_snapshot : pid \notin music_pids}
        after == IF deleted_pids # {} /\ removed
                 THEN [st |-> remove_playlists_by_persistent_ids(st, deleted_pids),
                       count |-> Cardinality(deleted_pids), writes |-> 1, upserted |-> {}]
                 ELSE [st |-> st, count |-> 0, writes |-> 0, upserted |-> {}]
    IN phase3_loop(music_playlists, db_snapshot, all_track_pids, after)

\* the full import, store part: every track, then every playlist
RECURSIVE import_tracks(_, _)
import_tracks(list, db) ==
    IF list = <<>> THEN db ELSE import_tracks(Tail(list), insert_track(db, list[1], TRUE))

RECURSIVE import_playlists(_, _)
import_playlists(list, st) ==
    IF list = <<>> THEN st
    ELSE import_playlists(Tail(list), insert_playlist(st, list[1], TRUE))

(***************************************************************************)
(* The sync flag and the results of a refused call                         *)
(***************************************************************************)
\* AtomicBool::load
load(flag) == flag

\* a swap that does not report the value it replaced
swap_blind(flag, val) == [prev |-> FALSE, now |-> val]

\* a guard whose drop stores nothing
drop_forgets(flag) == flag

\* SyncGuard::drop, run on every return after the guard is made: store(false)
drop(flag) == FALSE

\* AtomicBool::swap: one step that stores val and returns the value replaced
swap(flag, val) == [prev |-> flag, now |-> val]

\* the incremental pass refused the way the full import is
sync_reject == [result |-> "err", tracks_updated |-> 0, playlists_updated |-> 0]

\* Ok(SyncResult { tracks_updated: 0, playlists_updated: 0 })
sync_skip == [result |-> "ok", tracks_updated |-> 0, playlists_updated |-> 0]

\* the full import skipped the way the incremental pass is
import_skip == [result |-> "ok", tracks_updated |-> 0, playlists_updated |-> 0]

\* Err("Sync already in progress")
import_busy == [result |-> "err", tracks_updated |-> 0, playlists_updated |-> 0]

(***************************************************************************)
(* Request tasks running import_from_music_app and sync_recent_changes     *)
(***************************************************************************)
NoRet ==
    [op |-> "none", result |-> "none", tracks_updated |-> 0, playlists_updated |-> 0,
     gw |-> 0, writes |-> 0, ran |-> {}, failed |-> {}, busy |-> FALSE,
     repeat |-> FALSE, upserted |-> {}, reordered |-> {}]

\* a task between calls, r the result of its last call
IdleTask(r) ==
    [pc |-> "idle", since |-> 0, fetched |-> [tracks |-> <<>>, playlists |-> <<>>],
     total_updated |-> 0, gw |-> 0, writes |-> 0, ran |-> {}, failed |-> {},
     repeat |-> FALSE, ret |-> r]

\* the result of a call together with what the call did: gateway calls made,
\* store writes made, phases entered and failed
Returned(me, op, out, upserted, busy) ==
    [reordered |-> {}, op |-> op, result |-> out.result, tracks_updated |-> out.tracks_updated,
     playlists_updated |-> out.playlists_updated, gw |-> me.gw, writes |-> me.writes,
     ran |-> me.ran, failed |-> me.failed, busy |-> busy, repeat |-> me.repeat,
     upserted |-> upserted]

Err == [result |-> "err", tracks_updated |-> 0, playlists_updated |-> 0]

Ok(tracks_updated, playlists_updated) ==
    [result |-> "ok", tracks_updated |-> tracks_updated,
     playlists_updated |-> playlists_updated]

NoPass == [valid |-> FALSE, since |-> 0]

SetStore(st) ==
    /\ tracks' = st.tracks
    /\ playlists' = st.playlists
    /\ playlist_tracks' = st.playlist_tracks

\* the stored track persistent ids of the playlist pid, in order
StoredTrackIds(st, pid) == db_get_playlist_snapshot(st)[pid].track_ids

\* the external playlist mp has the stored name, folder flag and parent, and its
\* known tracks are the stored ones in a different order
SameButOrder(st, mp) ==
    LET filtered == filtered_track_ids(mp.track_ids, get_all_track_pids(st.tracks))
        snapshot == db_get_playlist_snapshot(st)
    IN /\ mp.persistent_id \in DOMAIN snapshot
       /\ snapshot[mp.persistent_id].name = mp.name
       /\ snapshot[mp.persistent_id].is_folder = mp.is_folder
       /\ snapshot[mp.persistent_id].parent_persistent_id = mp.parent_persistent_id
       /\ Len(filtered) = Len(snapshot[mp.persistent_id].track_ids)
       /\ {filtered[i] : i \in 1..Len(filtered)} =
              {snapshot[mp.persistent_id].track_ids[i] :
                   i \in 1..Len(snapshot[mp.persistent_id].track_ids)}
       /\ filtered # snapshot[mp.persistent_id].track_ids

\* the external playlists that differ from the stored ones in the order alone
Reordered(st, music_playlists) ==
    {music_playlists[i].persistent_id : i \in
        {j \in 1..Len(music_playlists) : SameButOrder(st, music_playlists[j])}}

\* sync_recent_changes is called; its first statement reads the flag
SyncLoad(t, since) ==
    LET me == [IdleTask(NoRet) EXCEPT
                   !.since = since, !.repeat = quiet.valid /\ quiet.since = since]
    IN /\ task[t].pc = "idle"
       /\ UNCHANGED <<tracks, playlists, playlist_tracks, am_tracks, am_playlists,
                      is_syncing, edit_vars>>
       /\ quiet' = NoPass
       /\ task' = [task EXCEPT ![t] =
                      IF load(is_syncing)
                      THEN IdleTask(Returned(me, "sync", sync_skip, {}, TRUE))
                      ELSE [me EXCEPT !.pc = "swap"]]

\* if state.is_syncing.swap(true) { return Ok(0, 0) }
SyncSwap(t) ==
    LET me == task[t]
        s == swap(is_syncing, TRUE)
    IN /\ me.pc = "swap"
       /\ UNCHANGED <<tracks, playlists, playlist_tracks, am_tracks, am_playlists,
                      edit_vars, quiet>>
       /\ is_syncing' = s.now
       /\ task' = [task EXCEPT ![t] =
                      IF s.prev
                      THEN IdleTask(Returned(me, "sync", sync_skip, {}, TRUE))
                      ELSE [me EXCEPT !.pc = "p1"]]

\* Phase 1: get_changes_since, then the upserts under the store lock
SyncPhase1(t, ok) ==
    LET me == [task[t] EXCEPT !.gw = @ + 1, !.ran = @ \cup {1}]
        acc == phase1(get_changes_since(am_tracks, me.since),
                      [st |-> Store, count |-> 0, writes |-> 0])
    IN /\ task[t].pc = "p1"
       /\ UNCHANGED <<am_tracks, am_playlists, edit_vars, quiet>>
       /\ IF ok
          THEN /\ SetStore(acc.st)
               /\ UNCHANGED is_syncing
               /\ task' = [task EXCEPT ![t] =
                              [me EXCEPT !.pc = "p2", !.total_updated = @ + acc.count,
                                         !.writes = @ + acc.writes]]
          ELSE /\ UNCHANGED <<tracks, playlists, playlist_tracks>>
               /\ is_syncing' = drop(is_syncing)
               /\ task' = [task EXCEPT ![t] =
                              IdleTask(Returned([me EXCEPT !.failed = @ \cup {1}],
                                                "sync", Err, {}, FALSE))]

\* Phase 2: get_snapshot_fields, then the rating/bpm diff under the store lock
SyncPhase2(t, outcome) ==
    LET me == [task[t] EXCEPT !.gw = @ + 1, !.ran = @ \cup {2}]
        acc == phase2(get_snapshot_fields(am_tracks), get_rating_bpm_snapshot(tracks),
                      [st |-> Store, count |-> 0, writes |-> 0])
    IN /\ task[t].pc = "p2"
       /\ UNCHANGED <<am_tracks, am_playlists, edit_vars, quiet>>
       /\ CASE outcome = "ok" ->
                 /\ SetStore(acc.st)
                 /\ UNCHANGED is_syncing
                 /\ task' = [task EXCEPT ![t] =
                                [me EXCEPT !.pc = "p3", !.total_updated = @ + acc.count,
                                           !.writes = @ + acc.writes]]
            [] outcome = "gateway" ->
                 /\ UNCHANGED <<tracks, playlists, playlist_tracks, is_syncing>>
                 /\ task' = [task EXCEPT ![t] =
                                [me EXCEPT !.pc = "p3", !.failed = @ \cup {2}]]
            [] OTHER ->
                 /\ UNCHANGED <<tracks, playlists, playlist_tracks>>
                 /\ is_syncing' = drop(is_syncing)
                 /\ task' = [task EXCEPT ![t] =
                                IdleTask(Returned([me EXCEPT !.failed = @ \cup {2}],
                                                  "sync", Err, {}, FALSE))]

\* Phase 3: get_playlist_snapshot, then the playlist diff under the store lock;
\* the call returns and the guard clears the flag
SyncPhase3(t, outcome) ==
    LET me == [task[t] EXCEPT !.gw = @ + 1, !.ran = @ \cup {3}]
        acc == phase3(Store, get_playlist_snapshot(am_playlists), outcome # "unremoved")
        done == [me EXCEPT !.writes = @ + acc.writes]
        lost == [me EXCEPT !.failed = @ \cup {3}]
    IN /\ task[t].pc = "p3"
       /\ UNCHANGED <<am_tracks, am_playlists, edit_vars>>
       /\ is_syncing' = drop(is_syncing)
       /\ CASE outcome \in {"ok", "unremoved"} ->
                 /\ SetStore(acc.st)
                 /\ quiet' = IF me.failed = {} THEN [valid |-> TRUE, since |-> me.since]
                             ELSE NoPass
                 /\ task' = [task EXCEPT ![t] =
                                IdleTask([Returned(done, "sync",
                                              Ok(me.total_updated, acc.count),
                                              acc.upserted, FALSE)
                                          EXCEPT !.reordered = Reordered(Store,
                                              get_playlist_snapshot(am_playlists))])]
            [] outcome = "gateway" ->
                 /\ UNCHANGED <<tracks, playlists, playlist_tracks, quiet>>
                 /\ task' = [task EXCEPT ![t] =
                                IdleTask(Returned(lost, "sync", Ok(me.total_updated, 0),
                                                  {}, FALSE))]
            [] OTHER ->
                 /\ UNCHANGED <<tracks, playlists, playlist_tracks, quiet>>
                 /\ task' = [task EXCEPT ![t] =
                                IdleTask(Returned(lost, "sync", Err, {}, FALSE))]

\* import_from_music_app is called; its first statement swaps the flag
ImportSwap(t) ==
    LET me == IdleTask(NoRet)
        s == swap(is_syncing, TRUE)
    IN /\ task[t].pc = "idle"
       /\ UNCHANGED <<tracks, playlists, playlist_tracks, am_tracks, am_playlists,
                      edit_vars>>
       /\ is_syncing' = s.now
       /\ quiet' = IF s.prev THEN quiet ELSE NoPass
       /\ task' = [task EXCEPT ![t] =
                      IF s.prev
                      THEN IdleTask(Returned(me, "import", import_busy, {}, TRUE))
                      ELSE [me EXCEPT !.pc = "fetch"]]

\* fetch_system_library; on failure the call returns and the guard clears the flag
ImportFetch(t, ok) ==
    LET me == [task[t] EXCEPT !.gw = @ + 1]
    IN /\ task[t].pc = "fetch"
       /\ UNCHANGED <<tracks, playlists, playlist_tracks, am_tracks, am_playlists,
                      edit_vars, quiet>>
       /\ is_syncing' = (IF ok THEN is_syncing ELSE drop(is_syncing))
       /\ task' = [task EXCEPT ![t] =
                      IF ok
                      THEN [me EXCEPT !.pc = "insert",
                                      !.fetched = fetch_system_library(am_tracks,
                                                                       am_playlists)]
                      ELSE IdleTask(Returned(me, "import", Err, {}, FALSE))]

\* the inserts under the store lock; the call returns and the guard clears the flag
ImportInsert(t, ok) ==
    LET me == task[t]
        st == import_playlists(me.fetched.playlists,
                  [Store EXCEPT !.tracks = import_tracks(me.fetched.tracks, tracks)])
        done == [me EXCEPT !.writes = Len(me.fetched.tracks) + Len(me.fetched.playlists)]
    IN /\ me.pc = "insert"
       /\ UNCHANGED <<am_tracks, am_playlists, edit_vars, quiet>>
       /\ is_syncing' = drop(is_syncing)
       /\ IF ok
          THEN /\ SetStore(st)
               /\ task' = [task EXCEPT ![t] =
                              IdleTask(Returned(done, "import",
                                           Ok(Len(me.fetched.tracks), 0), {}, FALSE))]
          ELSE /\ UNCHANGED <<tracks, playlists, playlist_tracks>>
               /\ task' = [task EXCEPT ![t] =
                              IdleTask(Returned(me, "import", Err, {}, FALSE))]

(***************************************************************************)
(* The user edits the external library                                     *)
(***************************************************************************)
EnvRate(i, rating) ==
    /\ i \in 1..Len(am_tracks)
    /\ am_tracks[i].rating # rating
    /\ am_tracks' = [am_tracks EXCEPT ![i].rating = rating]
    /\ quiet' = NoPass
    /\ UNCHANGED <<tracks, playlists, playlist_tracks, am_playlists, is_syncing, task,
                   edit_vars>>

EnvPlaylist(i, track_ids) ==
    /\ i \in 1..Len(am_playlists)
    /\ ~am_playlists[i].is_folder
    /\ am_playlists[i].track_ids # track_ids
    /\ am_playlists' = [am_playlists EXCEPT ![i].track_ids = track_ids]
    /\ quiet' = NoPass
    /\ UNCHANGED <<tracks, playlists, playlist_tracks, am_tracks, is_syncing, task,
                   edit_vars>>

(***************************************************************************)
(* Specifications of the sync commands                                     *)
(***************************************************************************)
Tasks == {1, 2}

InitSync ==
    /\ tracks = <<>>
    /\ playlists = <<>>
    /\ playlist_tracks = {}
    /\ file = <<>>
    /\ am_tracks = <<AmTrack("P1", "f1", <<"c">>, 0, 0, 2),
                     AmTrack("P2", "f2", <<>>, 60, 0, 1)>>
    /\ am_playlists = <<AmPlaylist("F1", "", "f", TRUE, <<>>),
                        AmPlaylist("L1", "F1", "n", FALSE, <<"P1", "P2">>)>>
    /\ undo_stack = <<>>
    /\ redo_stack = <<>>
    /\ ret = InitRet
    /\ run = RunIdle
    /\ cyc = CycIdle
    /\ is_syncing = FALSE
    /\ task = [t \in Tasks |-> IdleTask(NoRet)]
    /\ quiet = NoPass
    /\ codec = CodecIdle
    /\ watcher = WatcherIdle
    /\ tags_table = <<>>
    /\ log = <<>>

\* the tasks past the flag acquisition
Holders == {t \in Tasks : task[t].pc \in {"p1", "p2", "p3", "fetch", "insert"}}

\* two request tasks, each calling the full import or the incremental pass
NextSync ==
    \E t \in Tasks :
        \/ \E since \in {2, 3} : SyncLoad(t, since)
        \/ SyncSwap(t)
        \/ \E ok \in BOOLEAN : SyncPhase1(t, ok)
        \/ \E outcome \in {"ok", "gateway", "store"} : SyncPhase2(t, outcome)
        \/ \E outcome \in {"ok", "gateway", "store"} : SyncPhase3(t, outcome)
        \/ ImportSwap(t)
        \/ \E ok \in BOOLEAN : ImportFetch(t, ok)
        \/ \E ok \in BOOLEAN : ImportInsert(t, ok)

SpecSync == InitSync /\ [][NextSync]_vars

\* the next step of a call that holds the flag: its gateway call returns, with a
\* result or an error, and the statements up to the next call or the return run;
\* of the steps of NextSync these alone change task[t] while t holds the flag
Proceed(t) == t \in Holders /\ task'[t] # task[t]

\* the runtime polls every spawned command until it returns: weak fairness of
\* Proceed(t), which is enabled exactly while t holds the flag
SpecSyncLive ==
    SpecSync /\ \A t \in Tasks : []<>(t \notin Holders) \/ []<><<Proceed(t)>>_vars

\* one request task at a time, while the user edits the external library
NextPass ==
    \/ \E since \in {2, 3} : SyncLoad(1, since)
    \/ SyncSwap(1)
    \/ \E ok \in BOOLEAN : SyncPhase1(1, ok)
    \/ \E outcome \in {"ok", "gateway", "store"} : SyncPhase2(1, outcome)
    \/ \E outcome \in {"ok", "gateway", "store"} : SyncPhase3(1, outcome)
    \/ ImportSwap(1)
    \/ \E ok \in BOOLEAN : ImportFetch(1, ok)
    \/ \E ok \in BOOLEAN : ImportInsert(1, ok)
    \/ \E rating \in {0, 60} : EnvRate(1, rating)
    \/ \E track_ids \in {<<"P1", "P2">>, <<"P2", "P1">>, <<"P1", "P2", "P1">>} :
           EnvPlaylist(2, track_ids)

SpecPass == InitSync /\ [][NextPass]_vars

(***************************************************************************)
(* The XML import (library_parser.rs, commands.rs import_library)          *)
(***************************************************************************)
\* one entry of the Tracks dictionary of the XML file
XmlTrack(track_type, pid, location, date_modified, date_added) ==
    [track_type |-> track_type, persistent_id |-> pid, location |-> location,
     date_modified |-> date_modified, date_added |-> date_added]

\* the Tracks dictionaries of the XML files the user picks, in file order: entries
\* without a Persistent ID key, a streamed entry, an entry without a Location
Libraries ==
    LET g1 == XmlTrack("File", None, Some("g1"), 3, 2)
        g2 == XmlTrack("File", None, Some("g2"), 4, 2)
        p1 == XmlTrack("File", Some("P1"), Some("f1"), 2, 1)
        p3 == XmlTrack("Remote", Some("P3"), Some("f3"), 2, 1)
        p2 == XmlTrack("File", Some("P2"), None, 2, 1)
    IN {<<g1, g2>>, <<p1, g1>>, <<g2>>, <<p1, p3, p2>>}

\* parse_library: streamed entries and entries without a location are skipped, a
\* missing Persistent ID becomes the empty string
parse_library(xml) ==
    LET kept == SelectSeq(xml, LAMBDA e : e.track_type \notin {"Remote", "Stream"}
                                          /\ e.location.some)
    IN [i \in 1..Len(kept) |->
           [TrackRow(IF kept[i].persistent_id.some THEN kept[i].persistent_id.val ELSE "",
                     kept[i].location.val, None)
               EXCEPT !.modified_date = kept[i].date_modified,
                      !.date_added = kept[i].date_added]]

\* import_library: parse, then one insert_track per track under the store lock,
\* returning at the first insert that fails (fail is its index, 0 for none; the
\* rows written before it stay), then sync_tags
ImportLibrary(xml, parsed, fail) ==
    LET list == parse_library(xml)
        done == IF fail = 0 THEN list ELSE SubSeq(list, 1, fail - 1)
    IN /\ \A t \in Tasks : task[t].pc = "idle"
       /\ fail \in 0..Len(list)
       /\ UNCHANGED <<playlists, playlist_tracks, file, am_tracks, am_playlists,
                      undo_stack, redo_stack, run, cyc, is_syncing, task, quiet,
                      codec, watcher, log>>
       /\ IF ~parsed
          THEN /\ ret' = Ret("import_library", "err", NoFault)
               /\ UNCHANGED <<tracks, tags_table>>
          ELSE /\ tracks' = import_tracks(done, tracks)
               /\ IF fail # 0
                  THEN /\ ret' = Ret("import_library", "err", DbFault(fail))
                       /\ UNCHANGED tags_table
                  ELSE /\ ret' = Ret("import_library", "ok", NoFault)
                       /\ \E order \in iteration_orders(tag_counts(tracks')) :
                              tags_table' = sync_tags(tags_table, tracks', order)

\* the user imports XML files, and one task runs incremental passes
NextXml ==
    \/ \E xml \in Libraries, parsed \in BOOLEAN, fail \in 0..1 :
           ImportLibrary(xml, parsed, fail)
    \/ \E since \in {2, 3} : SyncLoad(1, since)
    \/ SyncSwap(1)
    \/ \E ok \in BOOLEAN : SyncPhase1(1, ok)
    \/ \E outcome \in {"ok", "gateway", "store"} : SyncPhase2(1, outcome)
    \/ \E outcome \in {"ok", "gateway", "store"} : SyncPhase3(1, outcome)

SpecXml == InitSync /\ [][NextXml]_vars

(***************************************************************************)
(* Specification of the commands run by two tasks, one lock or write at a  *)
(* time                                                                    *)
(***************************************************************************)
\* sync_recent_changes: each phase calls the gateway, then works on the store in
\* a lock scope of its own; Phase 1 takes the lock when meta_count > 0
sync_log(meta_count) ==
    <<Ev("gateway", 0)>>
    \o (IF meta_count > 0 THEN <<Ev("lock", "db"), Ev("unlock", "db")>> ELSE <<>>)
    \o <<Ev("gateway", 0), Ev("lock", "db"), Ev("unlock", "db"),
         Ev("gateway", 0), Ev("lock", "db"), Ev("unlock", "db")>>

\* a task that runs no command
NoCommand == [pc |-> "idle", script |-> <<>>, at |-> 1, holds |-> {}]

\* the store and the undo stack of InitOrder, and two tasks that run no command
InitLocks ==
    /\ tracks = (1 :> TrackRow("P1", "f1", Some(Text_c_H_p_h)))
                 @@ (2 :> TrackRow("", "f2", Some(Text_H)))
    /\ file = ("f1" :> Text_c_H_p_h) @@ ("f2" :> Text_H)
    /\ am_tracks = <<[persistent_id |-> "P1", location |-> "f1",
                      comment |-> Text_c_H_p_h, rating |-> 0, bpm |-> 0,
                      modification_date |-> 1]>>
    /\ playlists = (1 :> PlaylistRow("L1", "", "n", FALSE))
    /\ playlist_tracks = {}
    /\ am_playlists = <<>>
    /\ undo_stack \in
          {<<>>,
           <<UpdateTrackInfoAction(
                 TrackInfoState(1, TrackRow("P1", "f1", None), Some("s"), Some("t"),
                                Some(Text_H), Some(Text_c_H_p_h)))>>}
    /\ redo_stack = <<>>
    /\ ret = InitRet
    /\ run = RunIdle
    /\ cyc = CycIdle
    /\ is_syncing = FALSE
    /\ task = [t \in Tasks |-> NoCommand]
    /\ quiet = [valid |-> FALSE, since |-> 0]
    /\ codec = CodecIdle
    /\ watcher = WatcherIdle
    /\ tags_table = <<>>
    /\ log = <<>>

\* the mutexes some task holds
Locked == UNION {task[t].holds : t \in Tasks}

\* the runtime starts a command on task t; script is the order of its locks and
\* writes on the rows the store holds
Call(t, script) ==
    /\ task[t].pc = "idle"
    /\ script # <<>>
    /\ task' = [task EXCEPT ![t] = [pc |-> "run", script |-> script, at |-> 1,
                                     holds |-> {}]]
    /\ UNCHANGED <<tracks, playlists, playlist_tracks, am_tracks, am_playlists,
                   is_syncing, quiet, edit_vars>>

\* the command of task t makes its next step: Mutex::lock returns once no task
\* holds the mutex, a guard is dropped, or a write is made; after its last step
\* the command returns
Step(t) ==
    LET me == task[t]
        e == me.script[me.at]
        holds == IF e.op = "lock" THEN me.holds \cup {e.on}
                 ELSE IF e.op = "unlock" THEN me.holds \ {e.on}
                 ELSE me.holds
    IN /\ me.pc = "run"
       /\ e.op = "lock" => e.on \notin Locked
       /\ task' = [task EXCEPT ![t] =
                      IF me.at = Len(me.script) THEN NoCommand
                      ELSE [me EXCEPT !.at = @ + 1, !.holds = holds]]
       /\ UNCHANGED <<tracks, playlists, playlist_tracks, am_tracks, am_playlists,
                      is_syncing, quiet, edit_vars>>

\* two tasks, each running undo, redo, write_tags, batch_add_tag,
\* batch_remove_tag, add_to_playlist or sync_recent_changes, in any interleaving
NextLocks ==
    \E t \in Tasks :
        \/ \E id \in {1, 3}, fault \in OrderFaults : Call(t, write_tags_log(id, fault))
        \/ \E fault \in OrderFaults : Call(t, batch_log("add", <<1, 2>>, <<"d">>, fault))
        \/ \E fault \in OrderFaults : Call(t, batch_log("remove", <<1, 2>>, <<"H">>, fault))
        \/ Call(t, add_to_playlist_log(<<2, 1>>, 1))
        \/ \E fault \in OrderFaults : Call(t, stack_log(undo_stack, TRUE, fault))
        \/ \E fault \in OrderFaults : Call(t, stack_log(redo_stack, FALSE, fault))
        \/ \E meta_count \in {0, 1} : Call(t, sync_log(meta_count))
        \/ Step(t)

SpecLocks == InitLocks /\ [][NextLocks]_vars

(***************************************************************************)
(* Specification of batch_add_tag run by two tasks: the rows are read in    *)
(* one lock scope and written in later ones                                *)
(***************************************************************************)
\* batch_add_tag up to the drop of the first store lock: the tag is trimmed and
\* the rows of the ids are read into tracks_to_update
BatchAddRead(t, ids, tag) ==
    /\ task[t].pc \in {"idle", "done"}
    /\ trim(tag) # <<>>
    /\ Len(undo_stack) + Cardinality({u \in Tasks : task[u].pc = "loop"}) < MaxStack
    /\ task' = [task EXCEPT ![t] =
                    [pc |-> "loop", raw_tag |-> trim(tag), ids |-> ids,
                     tracks_to_update |-> tracks_to_update(tracks, ids)]]
    /\ UNCHANGED <<tracks, playlists, playlist_tracks, am_tracks, am_playlists,
                   is_syncing, quiet, edit_vars>>

\* the rest of batch_add_tag: the loop over the rows read, each new comment
\* written to the file and, in a lock scope of its own, to the store; then the
\* flush to the gateway and the push
BatchAddWrite(t) ==
    LET me == task[t]
        st == batch_loop("add", me.tracks_to_update, me.raw_tag,
                  [tracks |-> tracks, file |-> file, updates |-> <<>>,
                   undo_track_states |-> <<>>], NoFault)
        stacks == push([undo |-> undo_stack, redo |-> redo_stack],
                       UpdateTrackComments(st.undo_track_states))
    IN /\ me.pc = "loop"
       /\ tracks' = st.tracks
       /\ file' = st.file
       /\ am_tracks' = batch_update_track_comments(am_tracks, st.updates, TRUE)
       /\ IF st.undo_track_states # <<>>
          THEN /\ undo_stack' = stacks.undo
               /\ redo_stack' = stacks.redo
          ELSE UNCHANGED <<undo_stack, redo_stack>>
       /\ task' = [task EXCEPT ![t] = [me EXCEPT !.pc = "done"]]
       /\ UNCHANGED <<playlists, playlist_tracks, am_playlists, is_syncing, quiet, ret,
                      run, cyc, codec, watcher, tags_table, log>>

\* two tasks, each running batch_add_tag with a tag of its own
NextRace ==
    \/ \E ids \in {<<1>>, <<1, 2>>}, tag \in {<<"a">>, <<"d">>} : BatchAddRead(1, ids, tag)
    \/ \E ids \in {<<1>>, <<2, 1>>}, tag \in {<<"b">>, <<"h">>} : BatchAddRead(2, ids, tag)
    \/ \E t \in Tasks : BatchAddWrite(t)

SpecRace == InitLocks /\ [][NextRace]_vars

(***************************************************************************)
(* The library watcher (library_watcher.rs)                                *)
(***************************************************************************)
MaxTime == 12

\* Duration::from_secs(5)
DebounceSecs == 5

ends_with(s, suffix) ==
    /\ Len(s) >= Len(suffix)
    /\ SubSeq(s, Len(s) - Len(suffix) + 1, Len(s)) = suffix

Text_tmp == <<".", "t", "m", "p">>

Text_lock == <<".", "l", "o", "c", "k">>

\* event.paths.iter().any(|p| !ends_with(".tmp") && !ends_with(".lock") && !contains(".tmp"))
is_relevant(paths) ==
    \E i \in 1..Len(paths) :
        /\ ~ends_with(paths[i], Text_tmp)
        /\ ~ends_with(paths[i], Text_lock)
        /\ find(paths[i], Text_tmp) = 0

\* what rx.recv() delivers: a watch error, or an event with its paths
WatchResults ==
    {[ok |-> FALSE, paths |-> <<>>],
     [ok |-> TRUE, paths |-> <<<<"x">>>>],
     [ok |-> TRUE, paths |-> <<<<"x">> \o Text_tmp, <<"x">> \o Text_lock>>],
     [ok |-> TRUE, paths |-> <<<<"x">> \o Text_tmp \o <<"x">>, <<"x">>>>]}

InitWatcher ==
    /\ watcher = WatcherIdle
    /\ tags_table = <<>>
    /\ log = <<>>
    /\ tracks = <<>>
    /\ playlists = <<>>
    /\ playlist_tracks = {}
    /\ file = <<>>
    /\ am_tracks = <<>>
    /\ am_playlists = <<>>
    /\ undo_stack = <<>>
    /\ redo_stack = <<>>
    /\ ret = InitRet
    /\ run = RunIdle
    /\ cyc = CycIdle
    /\ is_syncing = FALSE
    /\ task = <<>>
    /\ quiet = [valid |-> FALSE, since |-> 0]
    /\ codec = CodecIdle

\* what the watcher thread leaves alone
watcher_rest == <<tracks, playlists, playlist_tracks, file, am_tracks, am_playlists,
                  undo_stack, redo_stack, ret, run, cyc, is_syncing, task, quiet,
                  codec, tags_table, log>>

\* one second passes with no event delivered
Tick ==
    /\ watcher.now < MaxTime
    /\ watcher' = [watcher EXCEPT !.now = @ + 1]
    /\ UNCHANGED watcher_rest

\* one iteration of the loop: rx.recv() returns res at the present time
WatchEvent(res) ==
    /\ UNCHANGED watcher_rest
    /\ watcher' =
          IF ~res.ok THEN [watcher EXCEPT !.last = "error"]
          ELSE IF ~is_relevant(res.paths) THEN [watcher EXCEPT !.last = "noise"]
          ELSE IF watcher.now - watcher.last_emit_time > DebounceSecs
          THEN [watcher EXCEPT !.last = "emit",
                               !.last_emit_time = watcher.now,
                               !.events = @ \cup {watcher.now},
                               !.emits = @ \cup {watcher.now}]
          ELSE [watcher EXCEPT !.last = "ignored",
                               !.events = @ \cup {watcher.now}]

NextWatcher ==
    \/ Tick
    \/ \E res \in WatchResults : WatchEvent(res)

SpecWatcher == InitWatcher /\ [][NextWatcher]_vars

\* the watcher thread with a clock that keeps advancing; the file events are the
\* environment's and none is ever required to arrive
SpecWatcherLive == SpecWatcher /\ WF_vars(Tick)

\* the user deletes a playlist in the external library, with the playlists in it
EnvRemovePlaylist(i) ==
    /\ i \in 1..Len(am_playlists)
    /\ am_playlists' =
          SelectSeq(am_playlists,
                    LAMBDA mp : /\ mp.persistent_id # am_playlists[i].persistent_id
                                /\ mp.parent_persistent_id # am_playlists[i].persistent_id)
    /\ quiet' = NoPass
    /\ UNCHANGED <<tracks, playlists, playlist_tracks, am_tracks, is_syncing, task,
                   edit_vars>>

\* one request task at a time, while the user deletes playlists externally and
\* puts tracks in a playlist, P9 being a track the store has never seen
NextRemoval ==
    \/ \E since \in {2, 3} : SyncLoad(1, since)
    \/ SyncSwap(1)
    \/ \E ok \in BOOLEAN : SyncPhase1(1, ok)
    \/ \E outcome \in {"ok", "gateway", "store"} : SyncPhase2(1, outcome)
    \/ \E outcome \in {"ok", "unremoved", "gateway", "store"} : SyncPhase3(1, outcome)
    \/ ImportSwap(1)
    \/ \E ok \in BOOLEAN : ImportFetch(1, ok)
    \/ \E ok \in BOOLEAN : ImportInsert(1, ok)
    \/ \E i \in {1, 2} : EnvRemovePlaylist(i)
    \/ \E track_ids \in {<<"P1", "P2">>, <<"P1", "P9", "P2">>, <<"P9", "P2", "P1">>} :
           EnvPlaylist(2, track_ids)

SpecRemoval == InitSync /\ [][NextRemoval]_vars

\* imports and sync passes of one request task, and between them the commands
\* that edit playlist memberships, undo and redo
NextFolder ==
    \/ SyncLoad(1, 3)
    \/ SyncSwap(1)
    \/ SyncPhase1(1, TRUE)
    \/ SyncPhase2(1, "ok")
    \/ \E outcome \in {"ok", "gateway"} : SyncPhase3(1, outcome)
    \/ ImportSwap(1)
    \/ \E ok \in BOOLEAN : ImportFetch(1, ok)
    \/ ImportInsert(1, TRUE)
    \/ /\ UNCHANGED <<run, cyc, log>>
       /\ \/ \E playlist_id \in {1, 2, 3} : AddToPlaylist(<<2, 1>>, playlist_id, NoFault)
          \/ \E remove_source \in BOOLEAN :
                CopyPlaylistMemberships(2, 1, <<1, 2>>, remove_source, NoFault)
          \/ Undo(NoFault)
          \/ Redo(NoFault)

SpecFolder == InitSync /\ [][NextFolder]_vars

(***************************************************************************)
(* Undo/redo properties                                                    *)
(***************************************************************************)
RunDb == unwrap_or_default(tracks[run.track].comment_raw)

RunFile == file[tracks[run.track].file_path]

\* C1: after N successful write_tags edits of one track, N undos leave the
\* track's comment in the file and in the store equal to its value before the
\* first edit, and N further redos leave it equal to the last value written.
\* The value before the first edit is the comment the file and the store both
\* held; an absent comment and the empty comment are the same value.
C1_Convergence ==
    /\ (run.track # 0 /\ run.u = run.w /\ run.r = 0) =>
           /\ RunDb = unwrap_or_default(run.base_db)
           /\ RunFile = unwrap_or_default(run.base_db)
    /\ (run.track # 0 /\ run.r = run.w) =>
           /\ RunDb = run.last
           /\ RunFile = run.last

\* two edits of a track, undone twice and redone twice
C1_Witness ==
    /\ run.track # 0 /\ run.w = MaxStack /\ run.r = run.w
    /\ run.last # unwrap_or_default(run.base_db)

\* C2: for an action recorded by batch_add_tag or batch_remove_tag, after any
\* number of alternating undo/redo calls on it, every track named in the
\* action has, in the file and in the store, the comment it had just before
\* the command or the one it had just after it.
C2_NoDrift ==
    cyc.on =>
        \A id \in cyc.ids :
            /\ unwrap_or_default(tracks[id].comment_raw) \in {cyc.pre_db[id], cyc.post_db[id]}
            /\ file[tracks[id].file_path] \in
                   {cyc.pre_file[tracks[id].file_path], cyc.post_file[tracks[id].file_path]}

EditOps == {"write_tags", "batch_add_tag", "batch_remove_tag", "add_to_playlist"}

\* C3: a command that records an action appends it on top of the undo stack and
\* leaves the redo stack empty, whatever the redo stack held before.
C3_PushClearsRedo ==
    [][(ret'.op \in EditOps /\ undo_stack' # undo_stack) =>
           /\ undo_stack' = Append(undo_stack, undo_stack'[Len(undo_stack')])
           /\ redo_stack' = <<>>]_vars

\* an edit was recorded while the redo stack held an undone action
C3_Witness ==
    /\ ret.op \in EditOps /\ ret.redo_before > 0
    /\ redo_stack = <<>> /\ undo_stack # <<>>

\* C4: undo on a non-empty undo stack moves exactly its top action to the redo
\* stack, redo on a non-empty redo stack moves exactly its top action back,
\* whatever write failed in the step; a redo right after an undo leaves both
\* stacks as they were before the undo.
C4_MoveTop ==
    [][/\ (ret'.op = "undo" /\ undo_stack # <<>>) =>
              /\ undo_stack' = SubSeq(undo_stack, 1, Len(undo_stack) - 1)
              /\ redo_stack' = Append(redo_stack, undo_stack[Len(undo_stack)])
       /\ (ret'.op = "redo" /\ redo_stack # <<>>) =>
              /\ undo_stack' = Append(undo_stack, redo_stack[Len(redo_stack)])
              /\ redo_stack' = SubSeq(redo_stack, 1, Len(redo_stack) - 1)
       /\ (ret.op = "undo" /\ ret.result = "some" /\ ret'.op = "redo") =>
              /\ Len(redo_stack') = ret.redo_before
              /\ Len(undo_stack') = Len(undo_stack) + 1
              /\ undo_stack'[Len(undo_stack')] = redo_stack[Len(redo_stack)]]_vars

\* a redo moved an action back although the store write of one of its tracks failed
C4_Witness ==
    /\ ret.op = "redo" /\ ret.result = "some" /\ ret.fault = "db"
    /\ undo_stack # <<>>
    /\ \E i \in 1..Len(undo_stack[Len(undo_stack)].tracks) :
           undo_stack[Len(undo_stack)].tracks[i].id = 1

(***************************************************************************)
(* Tag edit properties                                                     *)
(***************************************************************************)
EqIgnoreCase(a, b) == to_lowercase(a) = to_lowercase(b)

CommentOf(db, id) == unwrap_or_default(db[id].comment_raw)

\* the user comment and the tag list a comment decodes to
Decoded(comment) ==
    [user_comment |-> split_comment(comment).user_comment,
     tags |-> parse_tags(split_comment(comment).tag_block)]

\* after batch_remove_tag(.., tag) with every write succeeding: track id has lost
\* the tags equal to tag ignoring case and nothing else
RemovedFrom(id, tag) ==
    LET old == Decoded(CommentOf(tracks, id))
        new == CommentOf(tracks', id)
        kept == SelectSeq(old.tags, LAMBDA t : ~EqIgnoreCase(t, trim(tag)))
    IN /\ Decoded(new).tags = kept
       /\ Decoded(new).user_comment = old.user_comment
       /\ kept = <<>> /\ old.tags # <<>> => new = old.user_comment
       /\ file'[tracks[id].file_path] =
              (IF kept = old.tags THEN file[tracks[id].file_path] ELSE new)

\* C11: batch_remove_tag removes from a track every tag equal to the given tag
\* ignoring case and keeps the other tags in order; when no tag is left the
\* comment is the user comment alone, with no delimiter after it.
C11_RemoveIgnoringCase ==
    [][\A tag \in TagInputs :
           BatchRemoveTag(<<1, 2, 3>>, tag, NoFault) =>
               \A id \in DOMAIN tracks : RemovedFrom(id, tag)]_vars

\* "club banger && house; peak-time" minus "House" minus "peak-time" is "club banger"
C11_Witness ==
    /\ ret.op = "batch_remove_tag" /\ ret.fault = "none"
    /\ tracks[1].comment_raw = Some(Text_club)
    /\ file["f1"] = Text_club
    /\ Len(undo_stack) = 2
    /\ undo_stack[1].tracks[1].old_comment = Text_club_house_peak
    /\ undo_stack[1].tracks[1].new_comment = Text_club \o DELIMITER \o Text_peak

\* the tags of track id hold one equal to tag ignoring case
HasIgnoringCase(id, tag) ==
    \E i \in 1..Len(Decoded(CommentOf(tracks, id)).tags) :
        EqIgnoreCase(Decoded(CommentOf(tracks, id)).tags[i], trim(tag))

\* the comment the external library holds for the track, <<>> when it has none
AmComment(am, pid) ==
    IF first_track(am, pid) = 0 THEN <<>> ELSE am[first_track(am, pid)].comment

\* the step left track id as it was in the file, the store and the external
\* library, and recorded no state of it
Untouched(id) ==
    /\ tracks'[id] = tracks[id]
    /\ file'[tracks[id].file_path] = file[tracks[id].file_path]
    /\ AmComment(am_tracks', tracks[id].persistent_id) =
           AmComment(am_tracks, tracks[id].persistent_id)
    /\ undo_stack' # undo_stack =>
           id \notin StateIds(undo_stack'[Len(undo_stack')].tracks)

\* C12: batch_add_tag of a tag equal ignoring case to a tag already on a track
\* leaves the track's comment as it was in the file, the store and the external
\* library, and writes nothing for the track (no state of it is recorded and no
\* gateway update is queued for it), whatever fails for the other tracks.
C12_AddKeepsCasing ==
    [][\A tag \in TagInputs, fault \in TagFaults :
           BatchAddTag(<<1, 2, 3>>, tag, fault) =>
               \A id \in DOMAIN tracks :
                   HasIgnoringCase(id, tag) =>
                       /\ Untouched(id)
                       /\ \A i \in 1..Len(batch_loop("add",
                                  tracks_to_update(tracks, <<1, 2, 3>>), trim(tag),
                                  [tracks |-> tracks, file |-> file, updates |-> <<>>,
                                   undo_track_states |-> <<>>], fault).updates) :
                              batch_loop("add", tracks_to_update(tracks, <<1, 2, 3>>),
                                  trim(tag),
                                  [tracks |-> tracks, file |-> file, updates |-> <<>>,
                                   undo_track_states |-> <<>>], fault).updates[i][1]
                                  # tracks[id].persistent_id]_vars

\* "House" was added to "club banger && house; peak-time": track 1 is as it was
\* everywhere, and track 2, which had no such tag, got it
C12_Witness ==
    /\ ret.op = "batch_add_tag" /\ ret.fault = "none"
    /\ tracks[1].comment_raw = Some(Text_club_house_peak)
    /\ file["f1"] = Text_club_house_peak
    /\ am_tracks[1].comment = Text_club_house_peak
    /\ Len(undo_stack) = 1
    /\ StateIds(undo_stack[1].tracks) = {2}
    /\ undo_stack[1].tracks[1].new_comment = Text_H \o <<";", " ">> \o Text_House

\* the decoding gave back the user comment and the tag list that were encoded
RoundTrip ==
    /\ codec.decoded.user_comment = codec.user_comment
    /\ codec.decoded.tags = codec.tags

HasDelimiter(s) == find(s, DELIMITER) # 0

EndsWith(s, suffix) ==
    Len(s) >= Len(suffix) /\ SubSeq(s, Len(s) - Len(suffix) + 1, Len(s)) = suffix

\* C13 as stated: for a user comment without the delimiter and a list of
\* non-empty tags without the delimiter, decoding the encoded comment gives
\* back the user comment and the tag list.
C13_RoundTripAsStated ==
    (/\ codec.phase = "decoded"
     /\ ~HasDelimiter(codec.user_comment)
     /\ \A i \in 1..Len(codec.tags) :
            codec.tags[i] # <<>> /\ ~HasDelimiter(codec.tags[i]))
        => RoundTrip

\* C13: for a user comment that neither holds the delimiter nor, when tags
\* follow, ends with " &&", and a list of tags that are non-empty, have no
\* space at either end and hold no ';', decoding the encoded comment gives
\* back the user comment and the tag list, case, order and duplicates kept.
C13_RoundTrip ==
    (/\ codec.phase = "decoded"
     /\ ~HasDelimiter(codec.user_comment)
     /\ codec.tags # <<>> => ~EndsWith(codec.user_comment, <<" ", "&", "&">>)
     /\ \A i \in 1..Len(codec.tags) :
            /\ codec.tags[i] # <<>>
            /\ trim(codec.tags[i]) = codec.tags[i]
            /\ find(codec.tags[i], <<";">>) = 0)
        => RoundTrip

\* "a &" with the tags "H", "H" was encoded and decoded
C13_Witness ==
    /\ codec.phase = "decoded"
    /\ codec.user_comment = <<"a", " ", "&">>
    /\ codec.tags = <<<<"H">>, <<"H">>>>
    /\ codec.encoded = <<"a", " ", "&", " ", "&", "&", " ", "H", ";", " ", "H">>
    /\ RoundTrip

\* s without the spaces at its ends
Strip(s) ==
    LET inked == {i \in 1..Len(s) : s[i] # " "}
    IN IF inked = {} THEN <<>>
       ELSE SubSeq(s, CHOOSE i \in inked : \A j \in inked : i <= j,
                      CHOOSE i \in inked : \A j \in inked : j <= i)

\* the stripped non-empty pieces between the ';' of s, from position p on
RECURSIVE TagsFrom(_, _)
TagsFrom(s, p) ==
    IF p > Len(s) + 1 THEN <<>>
    ELSE LET ends == {i \in p..Len(s) : s[i] = ";"}
             e == IF ends = {} THEN Len(s) + 1
                  ELSE CHOOSE i \in ends : \A j \in ends : i <= j
             piece == Strip(SubSeq(s, p, e - 1))
         IN (IF piece = <<>> THEN <<>> ELSE <<piece>>) \o TagsFrom(s, e + 1)

\* where " && " occurs in s
DelimiterAt(s) == {i \in 1..Len(s) - 3 : SubSeq(s, i, i + 3) = DELIMITER}

FirstDelimiter(s) == CHOOSE i \in DelimiterAt(s) : \A j \in DelimiterAt(s) : i <= j

\* C32: a comment without " && " decodes to the whole string and no tags; a
\* comment with it is split at the first occurrence only, the left part being
\* the user comment and the right part split on ';' into tags, each trimmed,
\* the empty ones dropped; the decoders of the batch commands, of
\* get_global_tags and of sync_tags give the same tag list for the same comment.
C32_Decoding ==
    codec.phase \in {"decoded", "global", "sync"} =>
        /\ codec.decoded.tags =
              IF DelimiterAt(codec.encoded) = {} THEN <<>>
              ELSE TagsFrom(codec.encoded, FirstDelimiter(codec.encoded) + 4)
        /\ codec.phase = "decoded" =>
              codec.decoded.user_comment =
                  IF DelimiterAt(codec.encoded) = {} THEN codec.encoded
                  ELSE SubSeq(codec.encoded, 1, FirstDelimiter(codec.encoded) - 1)

\* sync_tags has decoded "a & &&  H; ;a": a comment whose user part holds an
\* ampersand, with a tag to trim and an empty piece to drop
C32_Witness ==
    /\ codec.phase = "sync"
    /\ codec.user_comment = <<"a", " ", "&">>
    /\ codec.tags = <<<<" ", "H">>, <<";", "a">>>>
    /\ codec.encoded = <<"a", " ", "&", " ", "&", "&", " ", " ", "H", ";", " ", ";", "a">>
    /\ codec.decoded.tags = <<<<"H">>, <<"a">>>>

\* C33: for a user comment without the delimiter and tags that are not empty,
\* every encoder gives the user comment unchanged when there are no tags, and
\* otherwise the user comment, the full delimiter " && " and the tags joined
\* with "; ", the delimiter being there when the user comment is empty.
C33_Reencode ==
    (/\ codec.phase \in {"encoded", "file"}
     /\ ~HasDelimiter(codec.user_comment)
     /\ \A i \in 1..Len(codec.tags) : codec.tags[i] # <<>>)
        => codec.encoded =
              IF codec.tags = <<>> THEN codec.user_comment
              ELSE codec.user_comment \o DELIMITER \o join(codec.tags, <<";", " ">>)

\* C14: a write_tags call that returns an error leaves the track's comment in
\* the file, the store and the external library as before and pushes no
\* action; a call that returns success leaves the new comment in the file and
\* the store and pushes exactly one action.
C14_WriteTagsAtomic ==
    [][\A id \in {1, 2, 3}, new_tags \in WriteInputs, fault \in Faults :
           WriteTags(id, new_tags, fault) =>
               /\ ret'.result = "err" =>
                      /\ tracks' = tracks
                      /\ file' = file
                      /\ am_tracks' = am_tracks
                      /\ undo_stack' = undo_stack
               /\ ret'.result = "ok" =>
                      /\ CommentOf(tracks', id) = new_tags
                      /\ file'[tracks[id].file_path] = new_tags
                      /\ Len(undo_stack') = Len(undo_stack) + 1]_vars

Members(pt, playlist_id) ==
    {get_playlist_track_ids(pt, playlist_id)[i] :
         i \in 1..Len(get_playlist_track_ids(pt, playlist_id))}

\* C15: in write_tags, batch_add_tag, batch_remove_tag, add_to_playlist,
\* update_rating and copy_playlist_memberships a failing gateway call neither
\* makes the command return an error nor keeps the store from being written.
C15_GatewayNonFatal ==
    [][/\ \A id \in {1, 2} :
              WriteTags(id, Text_p, GatewayFault) =>
                  ret'.result = "ok" /\ CommentOf(tracks', id) = Text_p
       /\ BatchAddTag(<<1, 2>>, <<"H">>, GatewayFault) =>
              /\ ret'.result = "ok"
              /\ \A id \in {1, 2} : ~HasIgnoringCase(id, <<"H">>) =>
                     CommentOf(tracks', id) # CommentOf(tracks, id)
       /\ BatchRemoveTag(<<1, 2>>, <<"H">>, GatewayFault) =>
              /\ ret'.result = "ok"
              /\ \A id \in {1, 2} : HasIgnoringCase(id, <<"H">>) =>
                     CommentOf(tracks', id) # CommentOf(tracks, id)
       /\ AddToPlaylist(<<2, 1>>, 1, GatewayFault) =>
              ret'.result = "ok" /\ {1, 2} \subseteq Members(playlist_tracks', 1)
       /\ \A rating \in Ratings :
              UpdateRating(1, rating, GatewayFault) =>
                  ret'.result = "ok" /\ tracks'[1].rating = rating
       /\ \A remove_source \in BOOLEAN :
              CopyPlaylistMemberships(2, 1, <<1>>, remove_source, GatewayFault) =>
                  ret'.result = "ok" /\ 2 \in Members(playlist_tracks', 1)]_vars

\* after a batch step with the fault given: no track's store comment changed
\* unless its file was written with the same comment
StoreFollowsFile(fault) ==
    \A id \in DOMAIN tracks :
        tracks'[id] # tracks[id] =>
            /\ file_ok(fault, id)
            /\ file'[tracks[id].file_path] = CommentOf(tracks', id)

\* after a batch step in which the file write of track 1 may have failed: track 1
\* is as it was if it did, and track 2, handled after it, is written if it was
\* to change
OthersWritten(fault, changes2) ==
    /\ ~file_ok(fault, 1) => tracks'[1] = tracks[1] /\ file'["f1"] = file["f1"]
    /\ changes2 =>
           /\ CommentOf(tracks', 2) # CommentOf(tracks, 2)
           /\ file'["f2"] = CommentOf(tracks', 2)

\* C16: in batch_add_tag and batch_remove_tag a track's comment in the store
\* changes only if the track's file write succeeded, a file write that fails
\* for one track does not keep the later tracks from being written, and the
\* command returns success either way.
C16_BatchIndependent ==
    [][\A tag \in TagInputs, fault \in TagFaults :
           /\ BatchAddTag(<<1, 2, 3>>, tag, fault) =>
                  /\ ret'.result = "ok"
                  /\ StoreFollowsFile(fault)
                  /\ OthersWritten(fault, trim(tag) # <<>> /\ ~HasIgnoringCase(2, tag))
           /\ BatchRemoveTag(<<1, 2, 3>>, tag, fault) =>
                  /\ ret'.result = "ok"
                  /\ StoreFollowsFile(fault)
                  /\ OthersWritten(fault, trim(tag) # <<>> /\ HasIgnoringCase(2, tag))]_vars

\* a batch whose file write failed for track 1 recorded both tracks, left
\* track 1 with its old comment and wrote the new comment of track 2
C16_Witness ==
    /\ ret.op \in {"batch_add_tag", "batch_remove_tag"}
    /\ ret.fault = "file" /\ ret.result = "ok"
    /\ undo_stack # <<>>
    /\ LET states == undo_stack[Len(undo_stack)].tracks
       IN /\ Len(states) = 2
          /\ states[1].id = 1 /\ states[2].id = 2
          /\ CommentOf(tracks, 1) = states[1].old_comment
          /\ file["f1"] = states[1].old_comment
          /\ CommentOf(tracks, 2) = states[2].new_comment
          /\ file["f2"] = states[2].new_comment

\* the ids of the list that the store knows
KnownIds(ids) == {ids[i] : i \in 1..Len(ids)} \cap DOMAIN tracks

\* C37: a batch_add_tag or batch_remove_tag call that changes no track (a tag
\* empty after trimming, ids the store does not know, for add a tag every track
\* carries, for remove a tag no track carries) pushes no action: the undo stack
\* and the redo stack are as before, and so are the store and the files,
\* whatever write would have failed.
C37_NoChangeNoPush ==
    [][\A ids \in {<<1, 2>>, <<3>>}, tag \in {<<"H">>, <<" ">>}, fault \in Faults :
           /\ (/\ BatchAddTag(ids, tag, fault)
               /\ \/ trim(tag) = <<>>
                  \/ \A id \in KnownIds(ids) : HasIgnoringCase(id, tag))
                  => UNCHANGED <<undo_stack, redo_stack, tracks, file>>
           /\ (/\ BatchRemoveTag(ids, tag, fault)
               /\ \/ trim(tag) = <<>>
                  \/ \A id \in KnownIds(ids) : ~HasIgnoringCase(id, tag))
                  => UNCHANGED <<undo_stack, redo_stack, tracks, file>>]_vars

\* batch_add_tag of "H" has returned with the redo stack as it found it, one
\* undone action on it, both tracks carrying the tag already
C37_Witness ==
    /\ ret.op = "batch_add_tag"
    /\ ret.redo_before = 1 /\ Len(redo_stack) = 1
    /\ HasIgnoringCase(1, <<"H">>) /\ HasIgnoringCase(2, <<"H">>)
    /\ redo_stack[1].kind = "UpdateTrackComments"

(***************************************************************************)
(* Store invariants                                                        *)
(***************************************************************************)
\* C17: in every reachable state of the store a playlist whose is_folder flag
\* is set has no membership row, after any sequence of full imports, sync
\* passes, add_to_playlist, copy_playlist_memberships, undo and redo.
C17_FolderEmpty ==
    \A id \in DOMAIN playlists :
        playlists[id].is_folder => RowsOf(playlist_tracks, id) = {}

\* C18: in every reachable state of the store no two tracks share the same
\* non-empty persistent identifier, after any sequence of imports and sync
\* upserts: an upsert of a known identifier updates the row it finds.
C18_UniquePid ==
    \A a \in DOMAIN tracks : \A b \in DOMAIN tracks :
        (a # b /\ tracks[a].persistent_id # "")
            => tracks[a].persistent_id # tracks[b].persistent_id

\* two full imports of the same two tracks have both returned Ok(2): their four
\* inserts left two rows
C18_Witness ==
    /\ \A t \in Tasks : /\ task[t].ret.op = "import"
                        /\ task[t].ret.result = "ok"
                        /\ task[t].ret.tracks_updated = 2
    /\ Cardinality(DOMAIN tracks) = 2

\* the occurrences, in the decoded tag lists of all stored tracks, of the tags
\* equal to key ignoring case
Occurrences(key) ==
    Cardinality({pos \in UNION {{<<id, i>> : i \in 1..Len(Decoded(CommentOf(tracks, id)).tags)} :
                                   id \in DOMAIN tracks} :
                    EqIgnoreCase(Decoded(CommentOf(tracks, pos[1])).tags[pos[2]], key)})

\* C21: after get_all_tags every stored tag's usage_count equals the number of
\* occurrences of that tag name, compared ignoring case, in the decoded tag
\* lists of all tracks in the store; a tag no track holds has count 0.
C21_NoDrift ==
    ret.op = "get_all_tags"
        => \A key \in DOMAIN tags_table :
               tags_table[key].usage_count = Occurrences(key)

\* C20: after add_to_playlist(tracks, playlist) followed by undo(), the ordered
\* membership of the playlist in the store equals its membership before the
\* add, also when some of the added tracks were members before the add.
C20_UndoRestoresMembership ==
    (cyc.on /\ cyc.depth = 1)
        => \A playlist_id \in cyc.ids :
               get_playlist_track_ids(playlist_tracks, playlist_id) = cyc.pre_db

(***************************************************************************)
(* Undo and redo of a comment action under a failing file write            *)
(***************************************************************************)
\* the step is undo() or redo() with the fault given, on a comment action
StackStep(revert, fault) ==
    IF revert
    THEN /\ Undo(fault) /\ undo_stack # <<>>
         /\ undo_stack[Len(undo_stack)].kind = "UpdateTrackComments"
    ELSE /\ Redo(fault) /\ redo_stack # <<>>
         /\ redo_stack[Len(redo_stack)].kind = "UpdateTrackComments"

StackTop(revert) ==
    IF revert THEN undo_stack[Len(undo_stack)] ELSE redo_stack[Len(redo_stack)]

\* C24: in undo() and redo() of a comment action, a file-write failure on one
\* track does not stop processing: every other track of the action has its
\* file and its store value written by the step.
C24_OthersWritten ==
    [][\A revert \in BOOLEAN :
          StackStep(revert, FileFault(1)) =>
              \A i \in 1..Len(StackTop(revert).tracks) :
                  LET track == StackTop(revert).tracks[i]
                      value == IF revert THEN track.old_comment ELSE track.new_comment
                  IN track.id # 1 =>
                         /\ file'[track.file_path] = value
                         /\ CommentOf(tracks', track.id) = value]_vars

\* undo() of an action of tracks 1 and 2 has run with the file write of track 1
\* failing: file 2 holds the old comment of track 2, file 1 does not hold the
\* old comment of track 1
C24_Witness ==
    /\ ret.op = "undo" /\ ret.result = "some" /\ ret.fault = "file"
    /\ redo_stack # <<>>
    /\ redo_stack[Len(redo_stack)].kind = "UpdateTrackComments"
    /\ Len(redo_stack[Len(redo_stack)].tracks) = 2
    /\ redo_stack[Len(redo_stack)].tracks[1].id = 1
    /\ file["f1"] # redo_stack[Len(redo_stack)].tracks[1].old_comment
    /\ file["f2"] = redo_stack[Len(redo_stack)].tracks[2].old_comment
    /\ file["f2"] # redo_stack[Len(redo_stack)].tracks[2].new_comment

\* C25: in undo() and redo() of a comment action, a track whose file write
\* fails is left alone by the step: its store comment is not written and no
\* gateway update is queued for it.
C25_FailedTrackSkipped ==
    [][\A revert \in BOOLEAN :
          StackStep(revert, FileFault(1)) =>
              \A i \in 1..Len(StackTop(revert).tracks) :
                  LET track == StackTop(revert).tracks[i]
                      updates == apply_action(StackTop(revert), revert, FileFault(1)).updates
                  IN track.id = 1 =>
                         /\ CommentOf(tracks', 1) = CommentOf(tracks, 1)
                         /\ \A k \in 1..Len(updates) :
                                updates[k][1] # track.persistent_id]_vars

(***************************************************************************)
(* Properties of the order of steps                                        *)
(***************************************************************************)
\* the positions of log holding the write op on the track id
At(op, id) == {i \in 1..Len(log) : log[i].op = op /\ log[i].on = id}

LogIds == {log[i].on : i \in {j \in 1..Len(log) : log[j].op \in {"file", "store", "gateway"}}}

\* C22: when undo() has reverted a comment action or a track-info action, for
\* every track of it the old value went to the file first, to the store second
\* and to the gateway last: no store write precedes the track's file write and
\* no gateway write precedes its store write.
C22_UndoWriteOrder ==
    (/\ ret.op = "undo" /\ ret.result = "some"
     /\ redo_stack[Len(redo_stack)].kind \in {"UpdateTrackComments", "UpdateTrackInfo"})
        => \A id \in LogIds :
               /\ \A i \in At("store", id) : \E j \in At("file", id) : j < i
               /\ \A i \in At("gateway", id) : \A j \in At("store", id) : j < i

\* C23: in write_tags, batch_add_tag and batch_remove_tag the gateway update of
\* a track is attempted only after the store write of that track, and the store
\* write only after the file write of that track: the gateway is never called
\* before the store write.
C23_EditPipelineOrder ==
    ret.op \in {"write_tags", "batch_add_tag", "batch_remove_tag"}
        => \A id \in LogIds :
               /\ \A i \in At("gateway", id) : \E j \in At("store", id) : j < i
               /\ \A i \in At("store", id) : \E j \in At("file", id) : j < i

\* the command holds the lock named when it makes step i of log
Held(name, i) ==
    \E j \in 1..(i - 1) :
        /\ log[j].op = "lock" /\ log[j].on = name
        /\ \A k \in (j + 1)..(i - 1) : ~(log[k].op = "unlock" /\ log[k].on = name)

Commands ==
    {"write_tags", "batch_add_tag", "batch_remove_tag", "add_to_playlist",
     "update_rating", "undo", "redo"}

\* C26: in every command the store lock is not held while a file write or a
\* gateway call is made.
C26_NoIoUnderStoreLock ==
    ret.op \in Commands
        => \A i \in 1..Len(log) :
               log[i].op \in {"file", "gateway"} => ~Held("db", i)

\* C27: no command takes the store lock while it holds the undo-stack lock.
C27_StoreBeforeUndo ==
    ret.op \in Commands
        => \A i \in 1..Len(log) :
               (log[i].op = "lock" /\ log[i].on = "db") => ~Held("undo_stack", i)

(***************************************************************************)
(* Watcher properties                                                      *)
(***************************************************************************)
\* C19: every music-library-changed signal is emitted only once the quiet
\* period has elapsed with no further relevant file event: before each signal
\* there is a relevant event at least DebounceSecs earlier with no relevant
\* event after it up to the signal, so the signal of a burst comes after the
\* last event of the burst.
C19_Debounce ==
    \A e \in watcher.emits :
        \E v \in watcher.events :
            /\ v + DebounceSecs <= e
            /\ \A u \in watcher.events : ~(v < u /\ u <= e)

\* C38: no library change is lost by the watcher: every relevant file event is
\* eventually followed by a music-library-changed signal emitted at or after the
\* time of that event, also the event that arrives within DebounceSecs after
\* the previous signal and is followed by no further event.
C38_NoLostChange ==
    \A v \in 0..MaxTime :
        (v \in watcher.events) ~> (\E e \in watcher.emits : e >= v)

\* C28: after Phase 1 has completed, for every track returned by
\* get_changes_since the store holds exactly one track with that persistent id,
\* and its path, title, comment, rating and bpm are the external values
\* returned, whatever the store held before.
C28_Phase1Upsert ==
    [][SyncPhase1(1, TRUE) =>
          LET returned == get_changes_since(am_tracks, task[1].since)
          IN \A i \in 1..Len(returned) :
                 /\ Cardinality(ids_of_pid(tracks', returned[i].persistent_id)) = 1
                 /\ \A id \in ids_of_pid(tracks', returned[i].persistent_id) :
                        /\ tracks'[id].file_path = returned[i].file_path
                        /\ tracks'[id].title = returned[i].title
                        /\ tracks'[id].comment_raw = returned[i].comment_raw
                        /\ tracks'[id].rating = returned[i].rating
                        /\ tracks'[id].bpm = returned[i].bpm]_vars

\* C39: the Phase 1 upsert of a track the store already knows leaves unchanged
\* every stored attribute the delta query does not supply: the row keeps its
\* local integer id, its missing flag, its date-added timestamp and its
\* modification timestamp.
C39_Phase1Frame ==
    [][SyncPhase1(1, TRUE) =>
          LET returned == get_changes_since(am_tracks, task[1].since)
          IN \A id \in DOMAIN tracks :
                 (\E i \in 1..Len(returned) :
                      returned[i].persistent_id = tracks[id].persistent_id)
                 => /\ id \in DOMAIN tracks'
                    /\ tracks'[id].persistent_id = tracks[id].persistent_id
                    /\ tracks'[id].missing = tracks[id].missing
                    /\ tracks'[id].date_added = tracks[id].date_added
                    /\ tracks'[id].modified_date = tracks[id].modified_date]_vars

\* C40: tracks with an empty persistent identifier are never merged with each
\* other: an import_library that returns Ok leaves in the store, for every track
\* of the file that has an empty persistent identifier, a row with that track's
\* file path, so two such tracks with different paths are both there.
C40_EmptyPidKept ==
    [][\A xml \in Libraries :
           ImportLibrary(xml, TRUE, 0)
           => \A i \in 1..Len(parse_library(xml)) :
                  parse_library(xml)[i].persistent_id = ""
                  => \E id \in DOMAIN tracks' :
                         tracks'[id].file_path = parse_library(xml)[i].file_path]_vars

\* Phase 1 of a pass has just upserted the one track changed since, P1, and the
\* store holds for it the rating the user set in the external library after
\* the import
C28_Witness ==
    /\ task[1].pc = "p2" /\ task[1].total_updated = 1 /\ task[1].since = 2
    /\ am_tracks[1].rating = 60
    /\ \E id \in DOMAIN tracks :
           tracks[id].persistent_id = "P1" /\ tracks[id].rating = 60
    /\ playlist_tracks # {}

\* the snapshot entries whose persistent id the store knows with another rating
\* or bpm
Differing(snapshot, db) ==
    {i \in 1..Len(snapshot) :
        \E id \in ids_of_pid(db, snapshot[i].persistent_id) :
            db[id].rating # snapshot[i].rating \/ db[id].bpm # snapshot[i].bpm}

\* C29: Phase 2 makes exactly one store update for each snapshot entry whose
\* persistent id is known locally with a different rating or bpm, and none for
\* an entry that is equal or unknown: no track is inserted, every other row is
\* left as it is, and the count reported is the number of updates.
C29_Phase2Diff ==
    [][SyncPhase2(1, "ok") =>
          LET snapshot == get_snapshot_fields(am_tracks)
              diff == Differing(snapshot, tracks)
          IN /\ DOMAIN tracks' = DOMAIN tracks
             /\ \A id \in DOMAIN tracks :
                    IF \E i \in diff : snapshot[i].persistent_id = tracks[id].persistent_id
                    THEN \E i \in diff :
                             /\ snapshot[i].persistent_id = tracks[id].persistent_id
                             /\ tracks'[id] = [tracks[id] EXCEPT
                                                   !.rating = snapshot[i].rating,
                                                   !.bpm = snapshot[i].bpm]
                    ELSE tracks'[id] = tracks[id]
             /\ task'[1].writes = task[1].writes + Cardinality(diff)
             /\ task'[1].total_updated = task[1].total_updated + Cardinality(diff)]_vars

\* Phase 2 has just run on a store that knows P1 alone: P1, whose rating the user
\* changed after Phase 1 upserted it, was updated, and P2 was not inserted
C29_Witness ==
    /\ task[1].pc = "p3" /\ 2 \in task[1].ran /\ 2 \notin task[1].failed
    /\ task[1].writes = 2 /\ task[1].total_updated = 2
    /\ Cardinality(DOMAIN tracks) = 1
    /\ \A id \in DOMAIN tracks :
           tracks[id].persistent_id = "P1" /\ tracks[id].rating = 60

StoredPids(pl) == {pl[id].persistent_id : id \in DOMAIN pl}

\* what Phase 3 leaves of the stored playlists, given the snapshot it fetched
Phase3Removed ==
    LET snapshot == get_playlist_snapshot(am_playlists)
        music_pids == {snapshot[i].persistent_id : i \in 1..Len(snapshot)}
    IN /\ \A pid \in StoredPids(playlists) \ music_pids :
              pid \notin StoredPids(playlists')
       /\ \A pid \in StoredPids(playlists) \cap music_pids :
              pid \in StoredPids(playlists')
       /\ \A r \in playlist_tracks' : r.playlist_id \in DOMAIN playlists'

SameButUnknown(st, mp) ==
    LET known == get_all_track_pids(st.tracks)
        snap == db_get_playlist_snapshot(st)
    IN /\ \E i \in 1..Len(mp.track_ids) : mp.track_ids[i] \notin known
       /\ mp.persistent_id \in DOMAIN snap
       /\ snap[mp.persistent_id].name = mp.name
       /\ snap[mp.persistent_id].is_folder = mp.is_folder
       /\ snap[mp.persistent_id].parent_persistent_id = mp.parent_persistent_id
       /\ snap[mp.persistent_id].track_ids =
              SelectSeq(mp.track_ids, LAMBDA tid : tid \in known)

\* C31: a Phase 3 that completes does not upsert and does not count a playlist
\* whose external track list holds ids unknown to the store while its known ids
\* in order, its name, its folder flag and its parent are the stored ones: its
\* row and its membership rows stay as they are, and the count returned is the
\* number of playlists deleted plus the number of playlists upserted.
C31_FilterBeforeCompare ==
    [][SyncPhase3(1, "ok") =>
          LET snapshot == get_playlist_snapshot(am_playlists)
              music_pids == {snapshot[i].persistent_id : i \in 1..Len(snapshot)}
              same == {i \in 1..Len(snapshot) : SameButUnknown(Store, snapshot[i])}
          IN /\ \A i \in same :
                    /\ snapshot[i].persistent_id \notin task'[1].ret.upserted
                    /\ \A id \in DOMAIN playlists :
                           playlists[id].persistent_id = snapshot[i].persistent_id =>
                               /\ id \in DOMAIN playlists'
                               /\ playlists'[id] = playlists[id]
                               /\ {r \in playlist_tracks' : r.playlist_id = id}
                                      = {r \in playlist_tracks : r.playlist_id = id}
             /\ same # {} =>
                    task'[1].ret.playlists_updated =
                        Cardinality(StoredPids(playlists) \ music_pids)
                        + Cardinality(task'[1].ret.upserted)]_vars

\* a pass has just returned no playlist change while the external playlist L1
\* holds the unknown track P9 between the two tracks the store holds for it
C31_Witness ==
    /\ quiet.valid
    /\ task[1].ret.op = "sync" /\ task[1].ret.result = "ok"
    /\ 3 \in task[1].ret.ran
    /\ task[1].ret.playlists_updated = 0 /\ task[1].ret.upserted = {}
    /\ Len(am_playlists) = 2
    /\ am_playlists[2].track_ids = <<"P1", "P9", "P2">>
    /\ Cardinality(playlist_tracks) = 2

(***************************************************************************)
(* Sync properties                                                         *)
(***************************************************************************)
\* task t makes a step that is a call of sync_recent_changes, or its swap
SyncFlagStep(t) ==
    /\ task'[t] # task[t]
    /\ \/ task[t].pc = "swap"
       \/ task[t].pc = "idle" /\ (task'[t].pc = "swap" \/ task'[t].ret.op = "sync")

\* task t makes a step that is a call of import_from_music_app
ImportFlagStep(t) ==
    /\ task'[t] # task[t]
    /\ task[t].pc = "idle"
    /\ task'[t].pc = "fetch" \/ task'[t].ret.op = "import"

\* C5: under any interleaving of import_from_music_app and sync_recent_changes
\* calls at most one call is past the flag acquisition, the flag is set exactly
\* while one is, and a call that tests the flag is never made to wait.
C5_MutualExclusion ==
    /\ Cardinality(Holders) <= 1
    /\ is_syncing <=> Holders # {}
    /\ \A t \in Tasks :
           /\ task[t].pc = "idle" => ENABLED ImportSwap(t) /\ ENABLED SyncLoad(t, 2)
           /\ task[t].pc = "swap" => ENABLED SyncSwap(t)

\* one call is past the flag acquisition and a call of the other task was refused
C5_Witness ==
    \E t \in Tasks, u \in Tasks :
        /\ t # u /\ t \in Holders
        /\ task[u].pc = "idle" /\ task[u].ret.busy

\* C6: a sync_recent_changes call that finds the flag held returns the success
\* result (0, 0), makes no gateway call and no store write, leaves the flag to
\* its owner, and is not made to wait.
C6_SkipWhileHeld ==
    /\ [](\A t \in Tasks : (is_syncing /\ task[t].pc = "idle") => ENABLED SyncLoad(t, 2))
    /\ [][\A t \in Tasks :
              (is_syncing /\ SyncFlagStep(t)) =>
                  /\ task'[t].pc = "idle"
                  /\ task'[t].ret.result = "ok"
                  /\ task'[t].ret.tracks_updated = 0
                  /\ task'[t].ret.playlists_updated = 0
                  /\ task'[t].ret.gw = 0
                  /\ task'[t].ret.writes = 0
                  /\ UNCHANGED <<tracks, playlists, playlist_tracks, is_syncing>>]_vars

\* an incremental pass was skipped and the pass that holds the flag still runs
C6_Witness ==
    \E t \in Tasks :
        /\ task[t].pc = "idle" /\ task[t].ret.op = "sync" /\ task[t].ret.busy
        /\ Holders # {}

\* C7: an import_from_music_app call that finds the flag held returns an error,
\* writes nothing to the store, and leaves the flag held and its owner running.
C7_ImportRejected ==
    [][\A t \in Tasks :
           (is_syncing /\ ImportFlagStep(t)) =>
               /\ task'[t].pc = "idle"
               /\ task'[t].ret.result = "err"
               /\ task'[t].ret.writes = 0
               /\ UNCHANGED <<tracks, playlists, playlist_tracks, is_syncing>>
               /\ \A u \in Tasks \ {t} : task'[u] = task[u]]_vars

\* a full import was rejected and the pass that holds the flag still runs
C7_Witness ==
    \E t \in Tasks :
        /\ task[t].pc = "idle" /\ task[t].ret.op = "import" /\ task[t].ret.busy
        /\ Holders # {} /\ is_syncing

\* C34: every call that got the flag returns, and the step in which it returns,
\* with a result or with a gateway or store error, clears the flag, so a set flag
\* is always cleared later; a call that was rejected or skipped leaves the flag
\* as it found it.
C34_FlagReleased ==
    /\ \A t \in Tasks : (t \in Holders) ~> (task[t].pc = "idle")
    /\ is_syncing ~> ~is_syncing
    /\ [][\A t \in Tasks :
              /\ (t \in Holders /\ task'[t].pc = "idle") => ~is_syncing'
              /\ (t \notin Holders /\ task'[t] # task[t] /\ task'[t].pc = "idle")
                     => is_syncing' = is_syncing]_vars

\* a pass has returned a store or gateway error and the flag is clear, after a
\* call of the other task was turned away
C34_Witness ==
    \E t \in Tasks, u \in Tasks :
        /\ t # u
        /\ task[t].pc = "idle" /\ task[t].ret.result = "err" /\ ~task[t].ret.busy
        /\ task[t].ret.failed # {}
        /\ task[u].pc = "idle" /\ task[u].ret.busy
        /\ ~is_syncing

\* the mutex task t is about to lock, "none" when its next step is no lock
WaitsFor(t) ==
    IF task[t].pc = "run" /\ task[t].script[task[t].at].op = "lock"
    THEN task[t].script[task[t].at].on ELSE "none"

\* C35: under any interleaving of undo, redo, write_tags, batch_add_tag,
\* batch_remove_tag, add_to_playlist and sync_recent_changes no task holds the
\* store lock and waits for the undo-stack lock while another holds the
\* undo-stack lock and waits for the store lock; a task that waits for a lock
\* waits for a task that is not waiting.
C35_NoDeadlock ==
    /\ ~\E t \in Tasks, u \in Tasks :
           /\ "db" \in task[t].holds /\ WaitsFor(t) = "undo_stack"
           /\ "undo_stack" \in task[u].holds /\ WaitsFor(u) = "db"
    /\ \A t \in Tasks :
           WaitsFor(t) \in Locked =>
               \E u \in Tasks : WaitsFor(t) \in task[u].holds /\ WaitsFor(u) \notin Locked

\* undo or redo holds the undo-stack lock and waits for the store lock, which
\* a command of the other task holds
C35_Witness ==
    \E t \in Tasks, u \in Tasks :
        /\ "undo_stack" \in task[t].holds /\ WaitsFor(t) = "db"
        /\ "db" \in task[u].holds
        /\ task[u].script[task[u].at].op = "store"

\* C36: when the batch_add_tag commands of the two tasks, adding different tags
\* to track 1, have both returned, the comment the store holds for track 1
\* carries both tags.
C36_NoLostUpdate ==
    (/\ task[1].pc = "done" /\ task[2].pc = "done"
     /\ to_lowercase(task[1].raw_tag) # to_lowercase(task[2].raw_tag))
        => \A t \in Tasks :
               has_tag(track_tags(tracks[1]), task[t].raw_tag)

\* C8: in a sync_recent_changes call that got the flag, Phase 2 and Phase 3 run
\* although Phase 1 failed, Phase 3 runs although Phase 2 failed, and the call
\* still returns its counts.
C8_PhasesIndependent ==
    \A t \in Tasks :
        LET r == task[t].ret
        IN (r.op = "sync" /\ ~r.busy) =>
               /\ 1 \in r.failed => {2, 3} \subseteq r.ran
               /\ 2 \in r.failed => 3 \in r.ran
               /\ r.failed \cap {1, 2} # {} => r.result = "ok"

\* C9: a complete sync pass that follows a complete pass with the same
\* since-timestamp, the external library unchanged in between, writes nothing
\* to the store and reports zero changes.
C9_SecondPassIdle ==
    \A t \in Tasks :
        LET r == task[t].ret
        IN (r.op = "sync" /\ r.repeat /\ r.result = "ok" /\ r.failed = {}) =>
               /\ r.writes = 0
               /\ r.tracks_updated = 0
               /\ r.playlists_updated = 0

\* task t completes Phase 3 with the playlist snapshot fetched and the store read
Phase3Done(t) ==
    /\ task[t].pc = "p3"
    /\ task'[t].pc = "idle"
    /\ 3 \notin task'[t].ret.failed

\* after Phase3Done(t): mp was upserted, counted, and stored in the external order
UpsertedInOrder(t, mp) ==
    /\ mp.persistent_id \in task'[t].ret.upserted
    /\ task'[t].ret.playlists_updated >= Cardinality(task'[t].ret.upserted)
    /\ StoredTrackIds(Store', mp.persistent_id) =
           filtered_track_ids(mp.track_ids, get_all_track_pids(tracks))

====
